---- MODULE Spec2Model ----
(***************************************************************************)
(* Verification model of the Owls Insight aggregation gateway:             *)
(* src/src/index.js (snapshot store, score resolver, broadcast engine,     *)
(* props-history request correlator, history watchers),                    *)
(* src/src/services/upstreamConnector.js (upstream channel) and            *)
(* src/src/services/dataTransformer.js (payload normalizer).               *)
(*                                                                         *)
(* Strings that the code inspects character by character (team names) are  *)
(* sequences of one-character strings; identifiers that are only compared  *)
(* for equality are TLA+ strings.  A JavaScript null / undefined / ''      *)
(* name or id is the empty sequence or the empty string (all are falsy).   *)
(***************************************************************************)
EXTENDS Integers, Sequences, FiniteSets, TLC

VARIABLES
    latestOddsData,         \* index.js:1786  sportKey -> Event[] (or Null)
    latestScoresData,       \* index.js:1790  last scores message (or Null)
    latestProps,            \* index.js:1793-1827  one slot per props channel
    upstreamInbox,          \* upstream message received, handler not yet run
    upstreamConnected,      \* upstreamConnector.js:425  this.connected
    reconnectAttempts,      \* upstreamConnector.js:426  this.reconnectAttempts
    upstreamHalted,         \* the connector closed its socket: no further connection attempt
    upstreamForwarded,      \* request ids sent upstream by upstreamConnector.emit
    consumerInbox,          \* consumer event received, handler not yet run
    handlerTrace,           \* branches taken by the last handler (its log lines)
    mergeTrace,             \* branches of mergeSportsWithBookmakers taken by the last odds update
    sockets,                \* io.sockets.sockets with socket.data.limits.propsAllowed
    propsHistoryRequests,   \* index.js:1805  Map entries {requestId, socketId, createdAt}
    propsHistoryRateLimits, \* index.js:1810  socketId -> {count, windowStart}
    now,                    \* Date.now(), in ms since process start
    nextSweep,              \* due time of the setInterval sweep (index.js:1814)
    historyWatchers,        \* index.js:98  socketId -> {key, timer}
    timers,                 \* setInterval timers that are active
    watchPc,                \* watch-history handlers suspended at their await
    nextTimer,              \* handle returned by the next setInterval
    emitted                 \* events emitted downstream by the last handler

storeVars == <<latestOddsData, latestScoresData, mergeTrace>>
corrVars == <<propsHistoryRequests, propsHistoryRateLimits, upstreamForwarded>>
clockVars == <<now, nextSweep>>
watchVars == <<historyWatchers, timers, watchPc, nextTimer>>
connVars == <<upstreamConnected, reconnectAttempts, upstreamHalted>>

vars == <<latestOddsData, latestScoresData, latestProps, upstreamInbox, upstreamConnected,
          reconnectAttempts, upstreamHalted, upstreamForwarded, consumerInbox, handlerTrace,
          mergeTrace, sockets, propsHistoryRequests, propsHistoryRateLimits, now, nextSweep,
          historyWatchers, timers, watchPc, nextTimer, emitted>>

\* ---------------------------------------------------------------------------
\* Bounds of the explored inputs
\* ---------------------------------------------------------------------------
MaxEvents == 1      \* events per sport list in one upstream message
MaxQuotes == 2      \* bookmaker quotes per incoming event
MaxScores == 1      \* score events per scores message
MaxBurst == 1       \* requests one consumer issues per window in the correlator scenarios
MaxForwarded == 1   \* distinct request ids forwarded upstream in the correlator scenarios
MaxSweeps == 2      \* sweep periods the clock runs through in the correlator scenarios
MaxWindows == 2     \* rate-limit windows the clock runs through in the rate-limit scenarios
MaxTimers == 2      \* intervals started in the watcher scenarios
MaxIdentEvents == 2 \* events per message in the event-identity scenarios
MaxFlatEvents == 2  \* events per flat array in the normalizer scenarios
MaxCrossScores == 2 \* score records per scores message in the cross-sport scenarios
MaxAvgBooks == 3    \* bookmakers of the Event in the averages scenarios

\* ---------------------------------------------------------------------------
\* Values
\* ---------------------------------------------------------------------------
Null == [isNull |-> TRUE]
NoId == ""
NoName == <<>>
NoKey == <<>>
NoScore == -1

RECURSIVE SeqsUpTo(_, _)
SeqsUpTo(S, n) ==
    IF n = 0 THEN {<<>>}
    ELSE LET shorter == SeqsUpTo(S, n - 1)
         IN shorter \cup {Append(s, x) : s \in {t \in shorter : Len(t) = n - 1}, x \in S}

Range(s) == {s[i] : i \in 1..Len(s)}

\* ---------------------------------------------------------------------------
\* Team-name canonicalisation (index.js:1899-1983)
\* ---------------------------------------------------------------------------
UpperCase == <<"A","B","C","D","E","F","G","H","I","J","K","L","M","N","O","P","Q","R","S","T","U","V","W","X","Y","Z">>
LowerCase == <<"a","b","c","d","e","f","g","h","i","j","k","l","m","n","o","p","q","r","s","t","u","v","w","x","y","z">>
AlphaNumeric == {"a","b","c","d","e","f","g","h","i","j","k","l","m","n","o","p","q","r","s","t","u","v","w","x","y","z","0","1","2","3","4","5","6","7","8","9"}

toLowerCase(c) ==
    IF \E i \in 1..Len(UpperCase) : UpperCase[i] = c
    THEN LowerCase[CHOOSE i \in 1..Len(UpperCase) : UpperCase[i] = c]
    ELSE c

IsAlphaNumeric(c) == c \in AlphaNumeric

TEAM_ALIASES ==
    {
      [alias |-> <<"u","m","k","c">>,
       canonical |-> <<"k","a","n","s","a","s","c","i","t","y">>],
      [alias |-> <<"m","i","s","s","o","u","r","i","k","a","n","s","a","s","c","i","t","y">>,
       canonical |-> <<"k","a","n","s","a","s","c","i","t","y">>],
      [alias |-> <<"s","t","p","e","t","e","r","s">>,
       canonical |-> <<"s","a","i","n","t","p","e","t","e","r","s">>],
      [alias |-> <<"s","t","j","o","h","n","s">>,
       canonical |-> <<"s","a","i","n","t","j","o","h","n","s">>],
      [alias |-> <<"s","t","m","a","r","y","s">>,
       canonical |-> <<"s","a","i","n","t","m","a","r","y","s">>],
      [alias |-> <<"s","t","b","o","n","a","v","e","n","t","u","r","e">>,
       canonical |-> <<"s","a","i","n","t","b","o","n","a","v","e","n","t","u","r","e">>],
      [alias |-> <<"s","t","f","r","a","n","c","i","s">>,
       canonical |-> <<"s","a","i","n","t","f","r","a","n","c","i","s">>],
      [alias |-> <<"s","t","t","h","o","m","a","s">>,
       canonical |-> <<"s","a","i","n","t","t","h","o","m","a","s">>],
      [alias |-> <<"s","t","j","o","s","e","p","h","s">>,
       canonical |-> <<"s","a","i","n","t","j","o","s","e","p","h","s">>],
      [alias |-> <<"s","t","l","o","u","i","s">>,
       canonical |-> <<"s","a","i","n","t","l","o","u","i","s">>],
      [alias |-> <<"u","s","c">>,
       canonical |-> <<"s","o","u","t","h","e","r","n","c","a","l","i","f","o","r","n","i","a">>],
      [alias |-> <<"s","o","u","t","h","e","r","n","c","a","l">>,
       canonical |-> <<"s","o","u","t","h","e","r","n","c","a","l","i","f","o","r","n","i","a">>],
      [alias |-> <<"u","c","o","n","n">>,
       canonical |-> <<"c","o","n","n","e","c","t","i","c","u","t">>],
      [alias |-> <<"s","m","u">>,
       canonical |-> <<"s","o","u","t","h","e","r","n","m","e","t","h","o","d","i","s","t">>],
      [alias |-> <<"t","c","u">>,
       canonical |-> <<"t","e","x","a","s","c","h","r","i","s","t","i","a","n">>],
      [alias |-> <<"u","c","f">>,
       canonical |-> <<"c","e","n","t","r","a","l","f","l","o","r","i","d","a">>],
      [alias |-> <<"l","s","u">>,
       canonical |-> <<"l","o","u","i","s","i","a","n","a","s","t","a","t","e">>],
      [alias |-> <<"o","l","e","m","i","s","s">>,
       canonical |-> <<"m","i","s","s","i","s","s","i","p","p","i">>],
      [alias |-> <<"u","n","l","v">>,
       canonical |-> <<"n","e","v","a","d","a","l","a","s","v","e","g","a","s">>],
      [alias |-> <<"v","c","u">>,
       canonical |-> <<"v","i","r","g","i","n","i","a","c","o","m","m","o","n","w","e","a","l","t","h">>],
      [alias |-> <<"u","n","c">>,
       canonical |-> <<"n","o","r","t","h","c","a","r","o","l","i","n","a">>]
    }

normalizeTeamKey(name) ==
    LET normalized == SelectSeq([i \in 1..Len(name) |-> toLowerCase(name[i])], IsAlphaNumeric)
    IN IF \E e \in TEAM_ALIASES : e.alias = normalized
       THEN (CHOOSE e \in TEAM_ALIASES : e.alias = normalized).canonical
       ELSE normalized

startsWith(s, prefix) ==
    /\ Len(prefix) <= Len(s)
    /\ SubSeq(s, 1, Len(prefix)) = prefix

buildTeamsKey(away, home) ==
    LET a == normalizeTeamKey(away)
        h == normalizeTeamKey(home)
    IN IF a = <<>> \/ h = <<>> THEN NoKey ELSE a \o <<"@">> \o h

getEventKey(event) == event.id

\* ---------------------------------------------------------------------------
\* Payload normalizer (dataTransformer.js)
\* A bookmaker is [key, markets]; a market is [key, outcomes]; an outcome is
\* [name, point, price] with point or price left out when the book gives
\* none.  Points are counted in halves (-7 is -3.5), prices in whole units.
\* A bookmaker written [key, price] stands for one whose only market is h2h
\* with the single outcome of the home side at that price.
\* A nullable number is <<>> (null) or <<n>>; averages is <<>> or <<record>>.
\* ---------------------------------------------------------------------------
\* book.markets || []
marketsOf(book, event) ==
    IF "markets" \in DOMAIN book THEN book.markets
    ELSE IF "price" \in DOMAIN book
         THEN <<[key |-> "h2h",
                 outcomes |-> <<[name |-> event.home_team, price |-> book.price]>>]>>
         ELSE <<>>

RECURSIVE Concat(_)
Concat(seqs) == IF seqs = <<>> THEN <<>> ELSE Head(seqs) \o Concat(Tail(seqs))

\* The markets of all bookmakers, in the order bookmakers.forEach and
\* markets.forEach visit them
marketsOfEvent(event) ==
    Concat([i \in 1..Len(event.bookmakers) |-> marketsOf(event.bookmakers[i], event)])

\* The outcomes of the markets keyed marketKey, in the order visited
outcomesOf(markets, marketKey) ==
    LET IsMarket(m) == m.key = marketKey
        ms == SelectSeq(markets, IsMarket)
    IN Concat([j \in 1..Len(ms) |-> ms[j].outcomes])

\* The array filled by if (o.name === name) { if (o[field] != null) push }
\* (named = TRUE) or by its else branch (named = FALSE)
pushed(outcomes, name, named, field) ==
    LET Pushes(o) == ((o.name = name) = named) /\ field \in DOMAIN o
        chosen == SelectSeq(outcomes, Pushes)
    IN [i \in 1..Len(chosen) |-> chosen[i][field]]

RECURSIVE Sum(_)
Sum(arr) == IF arr = <<>> THEN 0 ELSE Head(arr) + Sum(Tail(arr))

\* arr.length ? sum / arr.length : null, kept as the fraction sum / n
avg(arr) == IF arr = <<>> THEN <<>> ELSE <<[sum |-> Sum(arr), n |-> Len(arr)]>>

\* Math.round(num / den) for den > 0: the integer floor(num / den + 1/2)
MathRound(num, den) == (2 * num + den) \div (2 * den)

\* Variant: points rounded to the nearest whole point
roundPointToWhole(v) == IF v = <<>> THEN <<>> ELSE <<2 * MathRound(v[1].sum, 2 * v[1].n)>>

\* v != null ? Math.round(v * 2) / 2 : null; in halves the result is
\* Math.round of the mean of the halves
roundPoint(v) == IF v = <<>> THEN <<>> ELSE <<MathRound(v[1].sum, v[1].n)>>

\* v != null ? Math.round(v) : null
roundOdds(v) == IF v = <<>> THEN <<>> ELSE <<MathRound(v[1].sum, v[1].n)>>

calculateEventAverages(event) ==
    IF Len(event.bookmakers) = 0 THEN <<>>
    ELSE LET home == event.home_team
             markets == marketsOfEvent(event)
             spreads == outcomesOf(markets, "spreads")
             totals == outcomesOf(markets, "totals")
             h2h == outcomesOf(markets, "h2h")
         IN <<[spread |-> [home |-> roundPoint(avg(pushed(spreads, home, TRUE, "point"))),
                           homeOdds |-> roundOdds(avg(pushed(spreads, home, TRUE, "price"))),
                           away |-> roundPoint(avg(pushed(spreads, home, FALSE, "point"))),
                           awayOdds |-> roundOdds(avg(pushed(spreads, home, FALSE, "price")))],
               total |-> [over |-> roundPoint(avg(pushed(totals, "Over", TRUE, "point"))),
                          overOdds |-> roundOdds(avg(pushed(totals, "Over", TRUE, "price"))),
                          under |-> roundPoint(avg(pushed(totals, "Over", FALSE, "point"))),
                          underOdds |-> roundOdds(avg(pushed(totals, "Over", FALSE, "price")))],
               moneyline |-> [home |-> roundOdds(avg(pushed(h2h, home, TRUE, "price"))),
                              away |-> roundOdds(avg(pushed(h2h, home, FALSE, "price")))]]>>

\* { ...event, averages: calculateEventAverages(event) }
addAveragesToSports(sports) ==
    [s \in DOMAIN sports |->
        [i \in 1..Len(sports[s]) |->
            [averages |-> calculateEventAverages(sports[s][i])] @@ sports[s][i]]]

\* transformOddsApiFormat (dataTransformer.js:333-388): the buckets it
\* creates and its lookup table
CanonicalSports == {"nba", "nfl", "nhl", "ncaab", "ncaaf"}

sportKeyMapping ==
    ("basketball_nba" :> "nba") @@ ("football_nfl" :> "nfl") @@ ("americanfootball_nfl" :> "nfl")
    @@ ("icehockey_nhl" :> "nhl") @@ ("basketball_ncaab" :> "ncaab")
    @@ ("americanfootball_ncaaf" :> "ncaaf") @@ ("football_ncaaf" :> "ncaaf")

\* Variant: a sport key without an entry in the table maps to no bucket
canonicalSportKeyMappedOnly(event) ==
    IF event.sport_key \in DOMAIN sportKeyMapping THEN sportKeyMapping[event.sport_key]
    ELSE ""

\* sportKeyMapping[event.sport_key] || event.sport_key
canonicalSportKey(event) ==
    IF event.sport_key \in DOMAIN sportKeyMapping THEN sportKeyMapping[event.sport_key]
    ELSE event.sport_key

\* The events pushed to sports[sport], in the order of the array
RECURSIVE oddsApiBucket(_, _)
oddsApiBucket(events, sport) ==
    IF events = <<>> THEN <<>>
    ELSE LET event == Head(events)
             rest == oddsApiBucket(Tail(events), sport)
         IN IF canonicalSportKey(event) = sport
            THEN <<[id |-> event.id, sport_key |-> event.sport_key, sport |-> sport,
                    home_team |-> event.home_team, away_team |-> event.away_team,
                    commence_time |-> event.commence_time,
                    bookmakers |-> event.bookmakers]>> \o rest
            ELSE rest

transformOddsApiFormat(events) ==
    [sports |-> addAveragesToSports([sport \in CanonicalSports |-> oddsApiBucket(events, sport)])]

\* A payload that is a flat array of events is written [array |-> events]
transformUpstreamData(upstreamData) ==
    IF "sports" \in DOMAIN upstreamData
    THEN [sports |-> addAveragesToSports(upstreamData.sports)]
    ELSE transformOddsApiFormat(upstreamData.array)

\* ---------------------------------------------------------------------------
\* Snapshot store merge (index.js:1837-1888)
\* ---------------------------------------------------------------------------
MaxOf(S) == CHOOSE x \in S : \A y \in S : y <= x

\* prevByEventId.get(gameId): Map.set keeps the last game of each id
prevByEventId(prevGames, gameId) ==
    LET idx == {i \in 1..Len(prevGames) : prevGames[i].id # NoId /\ prevGames[i].id = gameId}
    IN IF gameId = NoId \/ idx = {} THEN <<>> ELSE <<prevGames[MaxOf(idx)]>>

\* Variant: the incoming game replaces the cached one, quotes included
mergeGameReplacing(prevGames, newGame) == newGame

\* Variant: a quote-less incoming game empties the cached quote list
mergeGameHeartbeatClears(prevGames, newGame) ==
    LET found == prevByEventId(prevGames, newGame.id)
    IN IF found = <<>> \/ Len(newGame.bookmakers) = 0 THEN newGame
       ELSE LET newBookKeys == {newGame.bookmakers[i].key : i \in 1..Len(newGame.bookmakers)}
                Preserved(b) == b.key \notin newBookKeys
            IN [newGame EXCEPT !.bookmakers =
                    newGame.bookmakers \o SelectSeq(found[1].bookmakers, Preserved)]

mergeGame(prevGames, newGame) ==
    LET found == prevByEventId(prevGames, newGame.id)
    IN IF found = <<>> THEN newGame
       ELSE LET newBookmakers == newGame.bookmakers
                prevBookmakers == found[1].bookmakers
                newBookKeys == {newBookmakers[i].key : i \in 1..Len(newBookmakers)}
                Preserved(b) == b.key \notin newBookKeys
            IN IF Len(newBookmakers) = 0
               THEN [newGame EXCEPT !.bookmakers = prevBookmakers]
               ELSE [newGame EXCEPT !.bookmakers =
                        newBookmakers \o SelectSeq(prevBookmakers, Preserved)]

\* Variant: the result starts from {} instead of {...prevSports}
mergeSportsDroppingAbsent(prevSports, newSports) ==
    [s \in DOMAIN newSports |->
        LET prevGames == IF s \in DOMAIN prevSports THEN prevSports[s] ELSE <<>>
        IN [i \in 1..Len(newSports[s]) |-> mergeGame(prevGames, newSports[s][i])]]

\* Variant: cached games that the update does not list stay at the end of
\* the list of their sport
mergeSportsKeepingAbsent(prevSports, newSports) ==
    [s \in (DOMAIN prevSports) \cup (DOMAIN newSports) |->
        IF s \in DOMAIN newSports
        THEN LET prevGames == IF s \in DOMAIN prevSports THEN prevSports[s] ELSE <<>>
                 Absent(g) == \A i \in 1..Len(newSports[s]) : newSports[s][i].id # g.id
             IN [i \in 1..Len(newSports[s]) |-> mergeGame(prevGames, newSports[s][i])]
                    \o SelectSeq(prevGames, Absent)
        ELSE prevSports[s]]

mergeSportsWithBookmakers(prevSports, newSports) ==
    [s \in (DOMAIN prevSports) \cup (DOMAIN newSports) |->
        IF s \in DOMAIN newSports
        THEN LET prevGames == IF s \in DOMAIN prevSports THEN prevSports[s] ELSE <<>>
             IN [i \in 1..Len(newSports[s]) |-> mergeGame(prevGames, newSports[s][i])]
        ELSE prevSports[s]]

\* Which branch of the per-game merge (index.js:1863, 1869, 1883) a game takes
mergeBranch(prevGames, newGame) ==
    IF prevByEventId(prevGames, newGame.id) = <<>> THEN "insert"
    ELSE IF Len(newGame.bookmakers) = 0 THEN "heartbeat"
    ELSE "merge"

mergeBranches(prevSports, newSports) ==
    UNION {{[sport |-> s,
             branch |-> mergeBranch(IF s \in DOMAIN prevSports THEN prevSports[s] ELSE <<>>,
                                    newSports[s][i])] :
                i \in 1..Len(newSports[s])} : s \in DOMAIN newSports}

\* ---------------------------------------------------------------------------
\* Score resolver (index.js:1944-2213)
\* A score event is [id, home_team, away_team, home_score, away_score];
\* a scores message is [sports |-> <<[key, events], ...>>] in the key order
\* of the upstream object.
\* ---------------------------------------------------------------------------
RECURSIVE Flatten(_)
Flatten(buckets) ==
    IF buckets = <<>> THEN <<>>
    ELSE Head(buckets).events \o Flatten(Tail(buckets))

normalizedScore(ev) ==
    [id |-> getEventKey(ev),
     home |-> ev.home_team,
     away |-> ev.away_team,
     homeKey |-> normalizeTeamKey(ev.home_team),
     awayKey |-> normalizeTeamKey(ev.away_team),
     teamsKey |-> buildTeamsKey(ev.away_team, ev.home_team),
     home_score |-> ev.home_score,
     away_score |-> ev.away_score]

\* Variant: records listed under a sport other than nba are left out
allScoresOfNbaOnly(scoresData) ==
    IF scoresData = Null THEN <<>>
    ELSE LET nba(bucket) == bucket.key = "nba"
             evs == Flatten(SelectSeq(scoresData.sports, nba))
         IN [i \in 1..Len(evs) |-> normalizedScore(evs[i])]

\* buildScoreIndex: allScores, and the two Maps read through their get()
allScores(scoresData) ==
    IF scoresData = Null THEN <<>>
    ELSE LET evs == Flatten(scoresData.sports)
         IN [i \in 1..Len(evs) |-> normalizedScore(evs[i])]

byIdKeys(all) == {all[i].id : i \in 1..Len(all)} \ {NoId}
byTeamsKeys(all) == {all[i].teamsKey : i \in 1..Len(all)} \ {NoKey}

\* Variant: a record without scores is not returned for its id
byIdGetSkippingEmpty(all, id) ==
    LET idx == {i \in 1..Len(all) :
                    /\ all[i].id # NoId /\ all[i].id = id
                    /\ ~(all[i].home_score = NoScore /\ all[i].away_score = NoScore)}
    IN IF idx = {} THEN <<>> ELSE <<all[MaxOf(idx)]>>

byIdGet(all, id) ==
    LET idx == {i \in 1..Len(all) : all[i].id # NoId /\ all[i].id = id}
    IN IF idx = {} THEN <<>> ELSE <<all[MaxOf(idx)]>>

byTeamsGet(all, key) ==
    LET idx == {i \in 1..Len(all) : all[i].teamsKey # NoKey /\ all[i].teamsKey = key}
    IN IF idx = {} THEN <<>> ELSE <<all[MaxOf(idx)]>>

MinOf(S) == CHOOSE x \in S : \A y \in S : x <= y

fuzzyDirect(oh, oa, score) ==
    /\ (startsWith(score.homeKey, oh) \/ startsWith(oh, score.homeKey))
    /\ (startsWith(score.awayKey, oa) \/ startsWith(oa, score.awayKey))

fuzzySwapped(oh, oa, score) ==
    /\ (startsWith(score.awayKey, oh) \/ startsWith(oh, score.awayKey))
    /\ (startsWith(score.homeKey, oa) \/ startsWith(oa, score.homeKey))

\* Variant: a record matching in the same orientation is preferred to an
\* earlier record matching crosswise
fuzzyMatchScoreDirectFirst(oddsHome, oddsAway, all) ==
    LET oh == normalizeTeamKey(oddsHome)
        oa == normalizeTeamKey(oddsAway)
        direct == {i \in 1..Len(all) : fuzzyDirect(oh, oa, all[i])}
        swapped == {i \in 1..Len(all) : fuzzySwapped(oh, oa, all[i])}
    IN IF oh = <<>> \/ oa = <<>> \/ direct \cup swapped = {} THEN <<>>
       ELSE IF direct # {} THEN <<all[MinOf(direct)]>>
       ELSE LET score == all[MinOf(swapped)]
            IN <<[score EXCEPT !.home_score = score.away_score,
                               !.away_score = score.home_score]>>

\* Variant: a record matching crosswise is returned with its scores as they are
fuzzyMatchScoreUnflipped(oddsHome, oddsAway, all) ==
    LET oh == normalizeTeamKey(oddsHome)
        oa == normalizeTeamKey(oddsAway)
        hits == {i \in 1..Len(all) : fuzzyDirect(oh, oa, all[i]) \/ fuzzySwapped(oh, oa, all[i])}
    IN IF oh = <<>> \/ oa = <<>> \/ hits = {} THEN <<>>
       ELSE <<all[MinOf(hits)]>>

fuzzyMatchScore(oddsHome, oddsAway, all) ==
    LET oh == normalizeTeamKey(oddsHome)
        oa == normalizeTeamKey(oddsAway)
        hits == {i \in 1..Len(all) : fuzzyDirect(oh, oa, all[i]) \/ fuzzySwapped(oh, oa, all[i])}
    IN IF oh = <<>> \/ oa = <<>> \/ hits = {} THEN <<>>
       ELSE LET score == all[MinOf(hits)]
            IN IF fuzzyDirect(oh, oa, score) THEN <<score>>
               ELSE <<[score EXCEPT !.home_score = score.away_score,
                                    !.away_score = score.home_score]>>

\* Variant: the team-pair key is tried before the event id
resolveStepTeamsFirst(ev, all) ==
    LET matchKey == buildTeamsKey(ev.away_team, ev.home_team)
    IN IF matchKey # NoKey /\ byTeamsGet(all, matchKey) # <<>> THEN "teams"
       ELSE IF ev.id # NoId /\ byIdGet(all, ev.id) # <<>> THEN "id"
       ELSE IF ev.home_team # NoName /\ ev.away_team # NoName
               /\ fuzzyMatchScore(ev.home_team, ev.away_team, all) # <<>> THEN "fuzzy"
       ELSE "none"

\* The step of mergeScoresIntoSports that supplies the score of one odds event
resolveStep(ev, all) ==
    LET matchKey == buildTeamsKey(ev.away_team, ev.home_team)
    IN IF ev.id # NoId /\ byIdGet(all, ev.id) # <<>> THEN "id"
       ELSE IF matchKey # NoKey /\ byTeamsGet(all, matchKey) # <<>> THEN "teams"
       ELSE IF ev.home_team # NoName /\ ev.away_team # NoName
               /\ fuzzyMatchScore(ev.home_team, ev.away_team, all) # <<>> THEN "fuzzy"
       ELSE "none"

resolveScore(ev, all) ==
    LET step == resolveStep(ev, all)
    IN IF step = "id" THEN byIdGet(all, ev.id)
       ELSE IF step = "teams" THEN byTeamsGet(all, buildTeamsKey(ev.away_team, ev.home_team))
       ELSE IF step = "fuzzy" THEN fuzzyMatchScore(ev.home_team, ev.away_team, all)
       ELSE <<>>

\* Variant: the overlay empties the quote list of the event it scores
overlayScoreDroppingQuotes(ev, all) ==
    LET score == resolveScore(ev, all)
    IN IF score = <<>> THEN ev
       ELSE IF score[1].home_score = NoScore /\ score[1].away_score = NoScore THEN ev
       ELSE [home_score |-> score[1].home_score, away_score |-> score[1].away_score,
             bookmakers |-> <<>>] @@ ev

overlayScore(ev, all) ==
    LET score == resolveScore(ev, all)
    IN IF score = <<>> THEN ev
       ELSE IF score[1].home_score = NoScore /\ score[1].away_score = NoScore THEN ev
       ELSE [home_score |-> score[1].home_score, away_score |-> score[1].away_score] @@ ev

mergeScoresIntoSports(sports, scoresData) ==
    IF sports = Null THEN sports
    ELSE IF scoresData = Null THEN sports
    ELSE LET all == allScores(scoresData)
         IN IF byIdKeys(all) = {} /\ byTeamsKeys(all) = {} THEN sports
            ELSE [s \in DOMAIN sports |->
                    [i \in 1..Len(sports[s]) |-> overlayScore(sports[s][i], all)]]

\* ---------------------------------------------------------------------------
\* Program constants
\* ---------------------------------------------------------------------------
PROPS_HISTORY_REQUEST_TTL_MS == 30000
maxReconnectAttempts == 10
MAX_PENDING_PROPS_HISTORY_REQUESTS == 10000
PROPS_HISTORY_RATE_LIMIT_WINDOW_MS == 1000
PROPS_HISTORY_MAX_REQUESTS_PER_WINDOW == 10

\* ---------------------------------------------------------------------------
\* Explored inputs
\* ---------------------------------------------------------------------------
Consumers == {"s1", "s2"}
Sports == {"nba", "nfl"}
Books == {"pinnacle", "fanduel", "draftkings"}
Prices == {1, 2}

Duke == <<"D","u","k","e">>
DukeBlueDevils == <<"D","u","k","e"," ","B","l","u","e"," ","D","e","v","i","l","s">>
UNC == <<"U","N","C">>
NorthCarolina == <<"N","o","r","t","h"," ","C","a","r","o","l","i","n","a">>
Kansas == <<"K","a","n","s","a","s">>
DukeUpper == <<"D","U","K","E">>

NoMsg == [channel |-> "none"]
NoEvent == [socket |-> "", event |-> "none", payload |-> <<>>]

\* Props channels: player-props (Pinnacle) and the five per-book channels
PropsChannels ==
    {"player-props-update", "bet365-props-update", "fanduel-props-update",
     "draftkings-props-update", "betmgm-props-update", "caesars-props-update"}

BookRank(b) == CASE b = "pinnacle" -> 1 [] b = "fanduel" -> 2 [] OTHER -> 3

\* Quote lists of one incoming event: distinct books in a fixed order, all at
\* the price of the message
QuoteLists(price) ==
    {[i \in 1..Len(ks) |-> [key |-> ks[i], price |-> price]] :
        ks \in {t \in SeqsUpTo(Books, MaxQuotes) :
                    \A i, j \in 1..Len(t) : i < j => BookRank(t[i]) < BookRank(t[j])}}

Game(id, home, away, quotes) ==
    [id |-> id, home_team |-> home, away_team |-> away, bookmakers |-> quotes]

\* Events upstream may list under a sport in the snapshot-store scenarios
StoreGames(sport, price) ==
    IF sport = "nba"
    THEN {Game("E1", Duke, UNC, q) : q \in QuoteLists(price)}
         \cup {Game("E2", Kansas, Duke, q) : q \in {<<>>}}
    ELSE {Game("F1", Kansas, UNC, <<[key |-> "pinnacle", price |-> price]>>)}

DistinctIds(games) == \A i, j \in 1..Len(games) : games[i].id = games[j].id => i = j

GameLists(sport, price) ==
    {g \in SeqsUpTo(StoreGames(sport, price), MaxEvents) : DistinctIds(g)}

StoreSports(price) ==
    UNION {{f \in [S -> UNION {GameLists(s, price) : s \in S}] :
                \A s \in S : f[s] \in GameLists(s, price)} : S \in SUBSET Sports}

StoreOddsMessages ==
    {[channel |-> "odds-update", data |-> [sports |-> f]] :
        f \in UNION {StoreSports(price) : price \in Prices}}

\* ---------------------------------------------------------------------------
\* Initial state: module load of index.js, before server.listen's callback
\* ---------------------------------------------------------------------------
Init ==
    /\ latestOddsData = Null
    /\ latestScoresData = Null
    /\ latestProps = [ch \in PropsChannels |-> Null]
    /\ upstreamInbox = NoMsg
    /\ upstreamConnected = FALSE
    /\ reconnectAttempts = 0
    /\ upstreamHalted = FALSE
    /\ upstreamForwarded = {}
    /\ consumerInbox = NoEvent
    /\ handlerTrace = {}
    /\ mergeTrace = {}
    /\ sockets = [c \in Consumers |-> [state |-> "absent", propsAllowed |-> FALSE]]
    /\ propsHistoryRequests = {}
    /\ propsHistoryRateLimits = <<>>
    /\ now = 0
    /\ nextSweep = PROPS_HISTORY_REQUEST_TTL_MS
    /\ historyWatchers = <<>>
    /\ timers = {}
    /\ watchPc = {}
    /\ nextTimer = 1
    /\ emitted = {}

\* ---------------------------------------------------------------------------
\* Upstream channel (upstreamConnector.js)
\* ---------------------------------------------------------------------------
\* Variant: a successful connection keeps the attempt counter
attemptsAfterConnectKept == reconnectAttempts

\* this.reconnectAttempts = 0
attemptsAfterConnect == 0

\* A connection attempt succeeds: 'connect' handler, upstreamConnector.js:503-507.
\* No attempt is made once the connector has closed its socket; socket events
\* are handled in order, so a pending connect_error is handled first.
UpstreamConnect ==
    /\ ~upstreamConnected
    /\ ~upstreamHalted
    /\ upstreamInbox.channel # "connect_error"
    /\ upstreamConnected' = TRUE
    /\ reconnectAttempts' = attemptsAfterConnect
    /\ UNCHANGED <<storeVars, latestProps, upstreamInbox, upstreamHalted, consumerInbox, handlerTrace,
                   sockets, corrVars, clockVars, watchVars, emitted>>

\* Variant: the disconnect callback drops the pending requests
onDisconnectPurging(pending) == {}

\* onDisconnect callback of the connector: a log line, index.js:3122
onDisconnect(pending) == pending

\* 'disconnect' handler, upstreamConnector.js:794-798
UpstreamDisconnect ==
    /\ upstreamConnected
    /\ upstreamConnected' = FALSE
    /\ propsHistoryRequests' = onDisconnect(propsHistoryRequests)
    /\ UNCHANGED <<storeVars, latestProps, upstreamInbox, reconnectAttempts, upstreamHalted,
                   consumerInbox, handlerTrace, sockets, propsHistoryRateLimits, upstreamForwarded,
                   clockVars, watchVars, emitted>>

\* A connection attempt fails, or the socket reports an error: the event
\* reaches the connector's socket, its handler has not run yet
UpstreamFail ==
    /\ ~upstreamConnected
    /\ ~upstreamHalted
    /\ upstreamInbox = NoMsg
    /\ upstreamInbox' = [channel |-> "connect_error"]
    /\ UNCHANGED <<storeVars, latestProps, connVars, consumerInbox, handlerTrace, sockets,
                   corrVars, clockVars, watchVars, emitted>>

UpstreamError ==
    /\ ~upstreamHalted
    /\ upstreamInbox = NoMsg
    /\ upstreamInbox' = [channel |-> "error"]
    /\ UNCHANGED <<storeVars, latestProps, connVars, consumerInbox, handlerTrace, sockets,
                   corrVars, clockVars, watchVars, emitted>>

\* 'connect_error' handler, upstreamConnector.js:801-810; at the maximum it
\* calls this.socket.disconnect(), which ends the reconnection
OnConnectError ==
    /\ upstreamInbox.channel = "connect_error"
    /\ reconnectAttempts' = reconnectAttempts + 1
    /\ upstreamHalted' = (reconnectAttempts + 1 >= maxReconnectAttempts)
    /\ upstreamInbox' = NoMsg
    /\ UNCHANGED <<storeVars, latestProps, upstreamConnected, consumerInbox, handlerTrace, sockets,
                   corrVars, clockVars, watchVars, emitted>>

\* 'error' handler, upstreamConnector.js:813-818: a log line and onError
OnError ==
    /\ upstreamInbox.channel = "error"
    /\ upstreamInbox' = NoMsg
    /\ UNCHANGED <<storeVars, latestProps, connVars, consumerInbox, handlerTrace, sockets,
                   corrVars, clockVars, watchVars, emitted>>

\* The upstream feed delivers one message to the connector's socket
UpstreamDeliver(msg) ==
    /\ upstreamConnected
    /\ upstreamInbox = NoMsg
    /\ upstreamInbox' = msg
    /\ UNCHANGED <<storeVars, latestProps, connVars, consumerInbox, handlerTrace, sockets,
                   corrVars, clockVars, watchVars, emitted>>

\* ---------------------------------------------------------------------------
\* Broadcast engine: odds and scores (index.js:2216-2356)
\* An emission is [event, payload, room]; room "all" is io.emit, a socket id
\* is socket.emit on that socket.
\* ---------------------------------------------------------------------------
\* upstreamConnector.js:615-623 then broadcastOddsUpdate.  For a null payload
\* transformUpstreamData throws on upstreamData.sports inside the connector's
\* try block: the error is logged and the callback is not called.
OnOddsUpdate ==
    /\ upstreamInbox.channel = "odds-update"
    /\ IF upstreamInbox.data = Null
       THEN /\ UNCHANGED <<latestOddsData, mergeTrace>>
            /\ emitted' = {}
            /\ handlerTrace' = {"odds-update", "transform-error"}
       ELSE LET data == transformUpstreamData(upstreamInbox.data)
                prev == IF latestOddsData = Null THEN <<>> ELSE latestOddsData
                merged == mergeSportsWithBookmakers(prev, data.sports)
            IN /\ latestOddsData' = merged
               /\ mergeTrace' = mergeBranches(prev, data.sports)
               /\ emitted' = {[event |-> "odds-update",
                               payload |-> mergeScoresIntoSports(merged, latestScoresData),
                               room |-> "all"]}
               /\ handlerTrace' = {"odds-update"}
    /\ upstreamInbox' = NoMsg
    /\ UNCHANGED <<latestScoresData, latestProps, connVars, consumerInbox, sockets,
                   corrVars, clockVars, watchVars>>

\* Variant: the buckets of sports the new message does not list stay cached
assignScoresCacheMerging(prev, data) ==
    IF prev = Null \/ data = Null THEN data
    ELSE LET listed == {data.sports[i].key : i \in 1..Len(data.sports)}
             absent(bucket) == bucket.key \notin listed
         IN [data EXCEPT !.sports = data.sports \o SelectSeq(prev.sports, absent)]

\* latestScoresData = data, index.js:2347
assignScoresCache(prev, data) == data

\* upstreamConnector.js:626-646 then broadcastScoresUpdate.  The callback is
\* called outside any try block; for a null payload it assigns the cache and
\* then throws on data.sports while building the payload (index.js:2347-2350).
OnScoresUpdate ==
    /\ upstreamInbox.channel = "scores-update"
    /\ latestScoresData' = assignScoresCache(latestScoresData, upstreamInbox.data)
    /\ IF upstreamInbox.data = Null
       THEN /\ emitted' = {}
            /\ handlerTrace' = {"scores-update", "uncaught TypeError"}
       ELSE /\ emitted' = {[event |-> "scores-update", payload |-> upstreamInbox.data.sports,
                            room |-> "all"]}
            /\ handlerTrace' = {"scores-update"}
    /\ upstreamInbox' = NoMsg
    /\ UNCHANGED <<latestOddsData, latestProps, connVars, mergeTrace, consumerInbox, sockets,
                   corrVars, clockVars, watchVars>>

\* ---------------------------------------------------------------------------
\* Snapshot-store scenarios: partial odds updates for two sports
\* ---------------------------------------------------------------------------
StoreDeliver == \E msg \in StoreOddsMessages : UpstreamDeliver(msg)

NextStore ==
    \/ UpstreamConnect
    \/ StoreDeliver
    \/ OnOddsUpdate

SpecStore == Init /\ [][NextStore]_vars

\* ---------------------------------------------------------------------------
\* Event-identity scenarios: one team pair under several ids, without id, and
\* with or without the optional commence_time field
\* ---------------------------------------------------------------------------
IdentGames ==
    {[commence_time |-> "19:00"] @@ Game("E1", Duke, UNC, <<[key |-> "pinnacle", price |-> 1]>>),
     Game("E1", Duke, UNC, <<[key |-> "fanduel", price |-> 2]>>),
     Game(NoId, Duke, UNC, <<[key |-> "fanduel", price |-> 2]>>),
     Game("E2", Duke, NorthCarolina, <<[key |-> "draftkings", price |-> 1]>>)}

IdentOddsMessages ==
    {[channel |-> "odds-update", data |-> [sports |-> [s \in {"nba"} |-> games]]] :
        games \in SeqsUpTo(IdentGames, MaxIdentEvents)}

IdentDeliver == \E msg \in IdentOddsMessages : UpstreamDeliver(msg)

NextIdent ==
    \/ UpstreamConnect
    \/ IdentDeliver
    \/ OnOddsUpdate

SpecIdent == Init /\ [][NextIdent]_vars

\* ---------------------------------------------------------------------------
\* List-replacement scenarios: the first odds update lists event E2, every
\* later one leaves it out
\* ---------------------------------------------------------------------------
ListsE2(msg) ==
    \E i \in 1..Len(msg.data.sports["nba"]) : msg.data.sports["nba"][i].id = "E2"

ReplDeliverFull ==
    /\ latestOddsData = Null
    /\ \E msg \in {m \in IdentOddsMessages : ListsE2(m)} : UpstreamDeliver(msg)

ReplDeliverPartial ==
    /\ latestOddsData # Null
    /\ \E msg \in {m \in IdentOddsMessages : ~ListsE2(m)} : UpstreamDeliver(msg)

NextRepl ==
    \/ UpstreamConnect
    \/ ReplDeliverFull
    \/ ReplDeliverPartial
    \/ OnOddsUpdate

SpecRepl == Init /\ [][NextRepl]_vars

\* ---------------------------------------------------------------------------
\* Score-resolution scenarios: one cached odds event, scores under any names
\* ---------------------------------------------------------------------------
ScoresOddsMessages ==
    {[channel |-> "odds-update", data |-> [sports |-> [s \in {"nba"} |-> <<g>>]]] :
        g \in {Game("E1", Duke, Kansas, <<[key |-> "pinnacle", price |-> 1]>>),
               Game("E2", Kansas, UNC, <<[key |-> "pinnacle", price |-> 1]>>)}}

ScoreEvents ==
    {[id |-> "S9", home_team |-> h, away_team |-> a, home_score |-> 3, away_score |-> 5] :
        h \in {DukeBlueDevils, Kansas, NoName}, a \in {DukeBlueDevils, Kansas, NoName}}

ScoresMessages ==
    {[channel |-> "scores-update", data |-> [sports |-> <<[key |-> "nba", events |-> evs]>>]] :
        evs \in SeqsUpTo(ScoreEvents, MaxScores)}

ScoresDeliverOdds == \E msg \in ScoresOddsMessages : UpstreamDeliver(msg)
ScoresDeliverScores == \E msg \in ScoresMessages : UpstreamDeliver(msg)

NextScores ==
    \/ UpstreamConnect
    \/ ScoresDeliverOdds
    \/ ScoresDeliverScores
    \/ OnOddsUpdate
    \/ OnScoresUpdate

SpecScores == Init /\ [][NextScores]_vars

\* ---------------------------------------------------------------------------
\* Resolver-precedence scenarios: score records that match the cached odds
\* event E1 (Kansas @ Duke) by id only, by team-pair key, or by prefix only,
\* each with its own scores, in any order
\* ---------------------------------------------------------------------------
PrecScoreEvents ==
    {[id |-> "E1", home_team |-> UNC, away_team |-> Kansas, home_score |-> 1, away_score |-> 4],
     [id |-> "S9", home_team |-> Duke, away_team |-> Kansas, home_score |-> 2, away_score |-> 5],
     [id |-> "S8", home_team |-> DukeBlueDevils, away_team |-> Kansas, home_score |-> 3, away_score |-> 6]}

PrecScoreLists ==
    {evs \in SeqsUpTo(PrecScoreEvents, Cardinality(PrecScoreEvents)) : DistinctIds(evs)}

PrecScoresMessages ==
    {[channel |-> "scores-update", data |-> [sports |-> <<[key |-> "nba", events |-> evs]>>]] :
        evs \in PrecScoreLists}

PrecDeliverOdds == \E msg \in ScoresOddsMessages : UpstreamDeliver(msg)
PrecDeliverScores == \E msg \in PrecScoresMessages : UpstreamDeliver(msg)

NextPrec ==
    \/ UpstreamConnect
    \/ PrecDeliverOdds
    \/ PrecDeliverScores
    \/ OnOddsUpdate
    \/ OnScoresUpdate

SpecPrec == Init /\ [][NextPrec]_vars

\* ---------------------------------------------------------------------------
\* Cross-sport scenarios: the odds events E1 (Kansas @ Duke) and E2 (UNC @
\* Kansas) are listed under nba; score records that match E1 by id, by
\* team-pair key, by prefix or by prefix crosswise, with or without scores,
\* arrive in any order, the first ones under ncaab and the rest under nba.
\* The first scores message has up to MaxCrossScores records, the messages
\* that replace it up to MaxScores.
\* ---------------------------------------------------------------------------
CrossScoreEvents ==
    {[id |-> "E1", home_team |-> UNC, away_team |-> Kansas, home_score |-> h[1], away_score |-> h[2]] :
        h \in {<<1, 4>>, <<NoScore, NoScore>>}}
    \cup {[id |-> "S9", home_team |-> Duke, away_team |-> Kansas, home_score |-> h[1], away_score |-> h[2]] :
        h \in {<<2, 5>>, <<NoScore, NoScore>>}}
    \cup {[id |-> "S8", home_team |-> DukeBlueDevils, away_team |-> Kansas, home_score |-> h[1], away_score |-> h[2]] :
        h \in {<<3, 6>>, <<NoScore, NoScore>>}}
    \cup {[id |-> "S7", home_team |-> Kansas, away_team |-> DukeBlueDevils, home_score |-> 7, away_score |-> 8]}

CrossScoreLists ==
    {evs \in SeqsUpTo(CrossScoreEvents, MaxCrossScores) : DistinctIds(evs)}

\* The first n records under ncaab, the others under nba; a sport without
\* records is not listed
CrossBuckets(evs, n) ==
    (IF n = 0 THEN <<>> ELSE <<[key |-> "ncaab", events |-> SubSeq(evs, 1, n)]>>)
    \o (IF n = Len(evs) THEN <<>> ELSE <<[key |-> "nba", events |-> SubSeq(evs, n + 1, Len(evs))]>>)

CrossScoresMessages ==
    UNION {{[channel |-> "scores-update", data |-> [sports |-> CrossBuckets(evs, n)]] :
                n \in 0..Len(evs)} : evs \in CrossScoreLists}

CrossReplacingMessages ==
    {msg \in CrossScoresMessages : Len(Flatten(msg.data.sports)) <= MaxScores}

CrossDeliverScores ==
    \E msg \in (IF latestScoresData = Null THEN CrossScoresMessages
                 ELSE CrossReplacingMessages) :
        UpstreamDeliver(msg)

NextCross ==
    \/ UpstreamConnect
    \/ PrecDeliverOdds
    \/ CrossDeliverScores
    \/ OnOddsUpdate
    \/ OnScoresUpdate

SpecCross == Init /\ [][NextCross]_vars

\* ---------------------------------------------------------------------------
\* Alias scenarios: E1 (UNC @ Duke) quoted by one book per message, scores
\* under another id for "North Carolina" @ "DUKE"
\* ---------------------------------------------------------------------------
AliasOddsMessages ==
    {[channel |-> "odds-update", data |-> [sports |-> [s \in {"nba"} |-> <<g>>]]] :
        g \in {Game("E1", Duke, UNC, <<[key |-> b, price |-> p]>>) :
                  b \in {"pinnacle", "fanduel"}, p \in Prices}}

AliasScoreEvents ==
    {[id |-> "S9", home_team |-> DukeUpper, away_team |-> NorthCarolina,
      home_score |-> h, away_score |-> 5] : h \in {3, 4}}

AliasScoresMessages ==
    {[channel |-> "scores-update", data |-> [sports |-> <<[key |-> "nba", events |-> <<ev>>]>>]] :
        ev \in AliasScoreEvents}

AliasDeliverOdds == \E msg \in AliasOddsMessages : UpstreamDeliver(msg)
AliasDeliverScores == \E msg \in AliasScoresMessages : UpstreamDeliver(msg)

NextAlias ==
    \/ UpstreamConnect
    \/ AliasDeliverOdds
    \/ AliasDeliverScores
    \/ OnOddsUpdate
    \/ OnScoresUpdate

SpecAlias == Init /\ [][NextAlias]_vars

\* ---------------------------------------------------------------------------
\* Consumer connections (index.js:2712-2880, 3088-3095)
\* ---------------------------------------------------------------------------
IsConnected(c) == sockets[c].state = "connected"

\* Map.delete on a function-valued table
MapDelete(f, k) == [x \in DOMAIN f \ {k} |-> f[x]]

\* Map.set on a function-valued table
MapSet(f, k, v) == [x \in DOMAIN f \cup {k} |-> IF x = k THEN v ELSE f[x]]

\* clearSocketWatchers, index.js:251-258: the timers that stay active
clearedTimers(socketId) ==
    IF socketId \notin DOMAIN historyWatchers THEN timers
    ELSE {t \in timers : t.id # historyWatchers[socketId].timer}

\* The disconnect handler forgets every pending entry of the socket
purgeSocketKeepsPending(pending, socketId) == pending

\* index.js:3090-3092
purgeSocket(pending, socketId) == {r \in pending : r.socketId # socketId}

\* Join replay of the connection handler, index.js:2857-2880
joinReplay(c) ==
    (IF latestOddsData = Null THEN {}
     ELSE {[event |-> "odds-update",
            payload |-> mergeScoresIntoSports(latestOddsData, latestScoresData),
            room |-> c]})
    \cup
    (IF latestScoresData = Null THEN {}
     ELSE {[event |-> "scores-update", payload |-> latestScoresData.sports, room |-> c]})

\* Authentication middleware accepts the key, then the connection handler runs
ConsumerConnect(c) ==
    /\ sockets[c].state = "absent"
    /\ \E allowed \in BOOLEAN :
        sockets' = [sockets EXCEPT ![c] = [state |-> "connected", propsAllowed |-> allowed]]
    /\ emitted' = joinReplay(c)
    /\ handlerTrace' = {"connection"}
    /\ UNCHANGED <<storeVars, latestProps, upstreamInbox, connVars, consumerInbox,
                   corrVars, clockVars, watchVars>>

\* A connected consumer sends one event; its handler has not run yet
ConsumerSend(c, event, payload) ==
    /\ IsConnected(c)
    /\ consumerInbox = NoEvent
    /\ consumerInbox' = [socket |-> c, event |-> event, payload |-> payload]
    /\ UNCHANGED <<storeVars, latestProps, upstreamInbox, connVars, handlerTrace, sockets,
                   corrVars, clockVars, watchVars, emitted>>

\* 'disconnect' handler, index.js:3088-3095; events the socket sent earlier
\* have been handled
ConsumerDisconnect(c) ==
    /\ IsConnected(c)
    /\ consumerInbox.socket # c
    /\ sockets' = [sockets EXCEPT ![c].state = "gone"]
    /\ timers' = clearedTimers(c)
    /\ historyWatchers' = MapDelete(historyWatchers, c)
    /\ propsHistoryRequests' = purgeSocket(propsHistoryRequests, c)
    /\ propsHistoryRateLimits' = MapDelete(propsHistoryRateLimits, c)
    /\ emitted' = {}
    /\ handlerTrace' =
        {"disconnect"}
        \cup (IF \E r \in propsHistoryRequests : r.socketId = c THEN {"had-pending"} ELSE {})
        \cup (IF c \in DOMAIN propsHistoryRateLimits THEN {"had-rate-limit"} ELSE {})
        \cup (IF c \in DOMAIN historyWatchers THEN {"had-watcher"} ELSE {})
    /\ UNCHANGED <<storeVars, latestProps, upstreamInbox, connVars, upstreamForwarded,
                   consumerInbox, clockVars, watchPc, nextTimer>>

\* ---------------------------------------------------------------------------
\* Broadcast engine: props channels (index.js:2359-2545, 2570-2656) and the
\* props replay requests (index.js:2908-2973, 3053-3085)
\* ---------------------------------------------------------------------------
\* Props broadcast to every connected socket, whatever its tier
propsRecipientsUnfiltered == {c \in Consumers : IsConnected(c)}

\* for (const [, socket] of io.sockets.sockets) if (socket.data.limits?.propsAllowed)
propsRecipients == {c \in Consumers : IsConnected(c) /\ sockets[c].propsAllowed}

\* payload built by each props broadcaster and replay handler
propsPayload(data) == data.sports

\* Variant: one update overwrites the slot of every bookmaker
assignPropsCacheAcrossBooks(slots, channel, data) == [ch \in DOMAIN slots |-> data]

\* latestPropsData = data, latestBet365PropsData = data, ...: the cache
\* variable of the channel's own broadcaster is assigned, no other
assignPropsCache(slots, channel, data) == [slots EXCEPT ![channel] = data]

\* broadcastPropsUpdate and its five per-book copies.  Like the scores
\* callback, each assigns its cache and then throws on data.sports for a null
\* payload (index.js:2389-2392).
OnPropsUpdate ==
    /\ upstreamInbox.channel \in PropsChannels
    /\ latestProps' = assignPropsCache(latestProps, upstreamInbox.channel, upstreamInbox.data)
    /\ IF upstreamInbox.data = Null
       THEN /\ emitted' = {}
            /\ handlerTrace' = {upstreamInbox.channel, "uncaught TypeError"}
       ELSE /\ emitted' = {[event |-> upstreamInbox.channel,
                            payload |-> propsPayload(upstreamInbox.data),
                            room |-> c] : c \in propsRecipients}
            /\ handlerTrace' = {upstreamInbox.channel}
    /\ upstreamInbox' = NoMsg
    /\ UNCHANGED <<storeVars, connVars, consumerInbox, sockets,
                   corrVars, clockVars, watchVars>>

\* The props channel a replay request answers on
replayChannel(event) ==
    CASE event = "request-props" -> "player-props-update"
      [] event = "request-bet365-props" -> "bet365-props-update"
      [] event = "request-fanduel-props" -> "fanduel-props-update"
      [] event = "request-draftkings-props" -> "draftkings-props-update"
      [] event = "request-betmgm-props" -> "betmgm-props-update"
      [] event = "request-caesars-props" -> "caesars-props-update"

PropsRequests ==
    {"request-props", "request-bet365-props", "request-fanduel-props",
     "request-draftkings-props", "request-betmgm-props", "request-caesars-props"}

\* request-props and its five per-book copies
OnRequestProps ==
    /\ consumerInbox.event \in PropsRequests
    /\ LET c == consumerInbox.socket
           ch == replayChannel(consumerInbox.event)
       IN IF ~sockets[c].propsAllowed
          THEN /\ emitted' = {}
               /\ handlerTrace' = {"props-denied"}
          ELSE /\ emitted' = IF latestProps[ch] = Null THEN {}
                             ELSE {[event |-> ch, payload |-> propsPayload(latestProps[ch]), room |-> c]}
               /\ handlerTrace' = {"props-replay"}
    /\ consumerInbox' = NoEvent
    /\ UNCHANGED <<storeVars, latestProps, upstreamInbox, connVars, sockets,
                   corrVars, clockVars, watchVars>>

\* ---------------------------------------------------------------------------
\* Props scenarios: props updates on every channel, consumers of both tiers
\* ---------------------------------------------------------------------------
PropsMessages == {[channel |-> ch, data |-> [sports |-> "props"]] : ch \in PropsChannels}

PropsDeliver == \E msg \in PropsMessages : UpstreamDeliver(msg)
PropsConnect == \E c \in Consumers : ConsumerConnect(c)
PropsDisconnect == \E c \in Consumers : ConsumerDisconnect(c)
PropsSend == \E c \in Consumers, event \in PropsRequests : ConsumerSend(c, event, <<>>)

NextProps ==
    \/ UpstreamConnect
    \/ PropsDeliver
    \/ OnPropsUpdate
    \/ PropsConnect
    \/ PropsDisconnect
    \/ PropsSend
    \/ OnRequestProps

SpecProps == Init /\ [][NextProps]_vars

\* ---------------------------------------------------------------------------
\* Request correlator: props-history requests (index.js:1805-1821,
\* 2548-2568, 2976-3051)
\* A request id is a record so that generated ids `props-history-<now>-<rand>`
\* and ids supplied by the consumer are values of one kind; NoRequestId is a
\* missing / empty id.
\* ---------------------------------------------------------------------------
NoRequestId == [prefix |-> "", now |-> 0, rand |-> ""]
ClientRequestIds == {[prefix |-> "r1", now |-> 0, rand |-> ""]}
Rands == {"x1", "x2"}

\* `props-history-${Date.now()}-${Math.random().toString(36).slice(2, 8)}`
generatedRequestId(t, rand) == [prefix |-> "props-history", now |-> t, rand |-> rand]

Rejection(c, requestId, error) ==
    [event |-> "props-history-response",
     payload |-> [success |-> FALSE, requestId |-> requestId, error |-> error],
     room |-> c]

\* propsHistoryRateLimits.get(socket.id) || { count: 0, windowStart: now }
storedRateInfo(c) ==
    IF c \in DOMAIN propsHistoryRateLimits THEN propsHistoryRateLimits[c]
    ELSE [count |-> 0, windowStart |-> now]

\* index.js:2998-3001: a new window starts once the old one has elapsed
currentRateInfo(c) ==
    LET rateInfo == storedRateInfo(c)
    IN IF now - rateInfo.windowStart > PROPS_HISTORY_RATE_LIMIT_WINDOW_MS
       THEN [count |-> 0, windowStart |-> now]
       ELSE rateInfo

\* The limiter lets one request more than the cap through
rateLimitedAboveCap(rateInfo) == rateInfo.count > PROPS_HISTORY_MAX_REQUESTS_PER_WINDOW

\* index.js:3002
rateLimited(rateInfo) == rateInfo.count >= PROPS_HISTORY_MAX_REQUESTS_PER_WINDOW

\* The handler registers requests however many are pending
atCapacityNever(pending) == FALSE

\* index.js:3014
atCapacity(pending) == Cardinality(pending) >= MAX_PENDING_PROPS_HISTORY_REQUESTS

\* The handler accepts a request whatever fields it carries
missingRequiredNever(payload) == FALSE

\* index.js:3023: !gameId || !player || !category
missingRequired(payload) == ~payload.complete

\* Deleting a request id leaves the table as it is
pendingDeleteKeeps(pending, requestId) == pending

\* propsHistoryRequests.delete(requestId)
pendingDelete(pending, requestId) == {r \in pending : r.requestId # requestId}

\* propsHistoryRequests.set(requestId, { socketId, createdAt })
pendingSet(pending, requestId, socketId, createdAt) ==
    pendingDelete(pending, requestId)
    \cup {[requestId |-> requestId, socketId |-> socketId, createdAt |-> createdAt]}

\* Variant: a request that passes the rate-limit check is not counted
chargeQuotaNever(limits, c, rateInfo) == limits

\* rateInfo.count++; propsHistoryRateLimits.set(socket.id, rateInfo),
\* index.js:3010-3011
chargeQuota(limits, c, rateInfo) ==
    MapSet(limits, c, [rateInfo EXCEPT !.count = rateInfo.count + 1])

\* 'request-props-history' handler, index.js:2976-3051
OnRequestPropsHistory ==
    /\ consumerInbox.event = "request-props-history"
    /\ \E rand \in Rands :
        LET c == consumerInbox.socket
            payload == consumerInbox.payload
            requestId == IF payload.requestId # NoRequestId THEN payload.requestId
                         ELSE generatedRequestId(now, rand)
            rateInfo == currentRateInfo(c)
        IN IF ~sockets[c].propsAllowed
           THEN /\ emitted' = {Rejection(c, requestId, "Props history requires Rookie or MVP subscription")}
                /\ handlerTrace' = {"request-denied"}
                /\ UNCHANGED corrVars
           ELSE IF rateLimited(rateInfo)
           THEN /\ emitted' = {Rejection(c, requestId, "Rate limit exceeded, try again later")}
                /\ handlerTrace' = {"request-rate-limited"}
                /\ UNCHANGED corrVars
           ELSE /\ propsHistoryRateLimits' = chargeQuota(propsHistoryRateLimits, c, rateInfo)
                /\ IF atCapacity(propsHistoryRequests)
                   THEN /\ emitted' = {Rejection(c, requestId, "Server overloaded, try again later")}
                        /\ handlerTrace' = {"request-overloaded"}
                        /\ UNCHANGED <<propsHistoryRequests, upstreamForwarded>>
                   ELSE IF missingRequired(payload)
                   THEN /\ emitted' = {Rejection(c, requestId, "Missing required parameters: gameId, player, category")}
                        /\ handlerTrace' = {"request-invalid"}
                        /\ UNCHANGED <<propsHistoryRequests, upstreamForwarded>>
                   ELSE IF upstreamConnected
                   THEN /\ propsHistoryRequests' = pendingSet(propsHistoryRequests, requestId, c, now)
                        /\ upstreamForwarded' = upstreamForwarded \cup {requestId}
                        /\ emitted' = {}
                        /\ handlerTrace' = {"request-forwarded"}
                   ELSE /\ propsHistoryRequests' =
                              pendingDelete(pendingSet(propsHistoryRequests, requestId, c, now), requestId)
                        /\ emitted' = {Rejection(c, requestId, "Upstream not connected")}
                        /\ handlerTrace' = {"request-not-forwarded"}
                        /\ UNCHANGED upstreamForwarded
    /\ consumerInbox' = NoEvent
    /\ UNCHANGED <<storeVars, latestProps, upstreamInbox, connVars, sockets,
                   clockVars, watchVars>>

\* upstreamConnector.js:772-775 then broadcastPropsHistoryResponse,
\* index.js:2548-2568
OnPropsHistoryResponse ==
    /\ upstreamInbox.channel = "props-history-response"
    /\ LET data == upstreamInbox.data
           found == {r \in propsHistoryRequests : r.requestId = data.requestId}
       IN IF data = Null
          THEN /\ emitted' = {}
               /\ handlerTrace' = {"response-dropped"}
               /\ UNCHANGED propsHistoryRequests
          ELSE IF data.requestId # NoRequestId
          THEN IF found = {}
               THEN /\ emitted' = {}
                    /\ handlerTrace' = {"response-unknown"}
                    /\ UNCHANGED propsHistoryRequests
               ELSE LET requestMeta == CHOOSE r \in found : TRUE
                    IN /\ propsHistoryRequests' = pendingDelete(propsHistoryRequests, data.requestId)
                       /\ IF IsConnected(requestMeta.socketId)
                          THEN /\ emitted' = {[event |-> "props-history-response", payload |-> data,
                                               room |-> requestMeta.socketId]}
                               /\ handlerTrace' = {"response-routed"}
                          ELSE /\ emitted' = {}
                               /\ handlerTrace' = {"response-target-missing"}
          ELSE /\ emitted' = {[event |-> "props-history-response", payload |-> data, room |-> "all"]}
               /\ handlerTrace' = {"response-broadcast"}
               /\ UNCHANGED propsHistoryRequests
    /\ upstreamInbox' = NoMsg
    /\ UNCHANGED <<storeVars, latestProps, connVars, upstreamForwarded, consumerInbox, sockets,
                   propsHistoryRateLimits, clockVars, watchVars>>

\* Variant: the sweep deletes an entry only when it is older than twice the TTL
sweepExpiresAfterTwoTtl(createdAt, t) == t - createdAt > 2 * PROPS_HISTORY_REQUEST_TTL_MS

\* now - value.createdAt > PROPS_HISTORY_REQUEST_TTL_MS, index.js:1817
sweepExpires(createdAt, t) == t - createdAt > PROPS_HISTORY_REQUEST_TTL_MS

\* setInterval callback, index.js:1814-1821
Sweep ==
    /\ now = nextSweep
    /\ propsHistoryRequests' =
          {r \in propsHistoryRequests : ~sweepExpires(r.createdAt, now)}
    /\ nextSweep' = nextSweep + PROPS_HISTORY_REQUEST_TTL_MS
    /\ emitted' = {}
    /\ handlerTrace' =
          {"sweep"} \cup (IF \E r \in propsHistoryRequests : sweepExpires(r.createdAt, now)
                          THEN {"expired"} ELSE {})
    /\ UNCHANGED <<storeVars, latestProps, upstreamInbox, connVars, upstreamForwarded,
                   consumerInbox, sockets, propsHistoryRateLimits, now, watchVars>>

\* Date.now() advances by d, at most up to the due time of the sweep
Tick(d, horizon) ==
    /\ now < nextSweep
    /\ now < horizon
    /\ now' = IF now + d < nextSweep THEN now + d ELSE nextSweep
    /\ UNCHANGED <<storeVars, latestProps, upstreamInbox, connVars, consumerInbox,
                   handlerTrace, sockets, corrVars, nextSweep, watchVars, emitted>>

\* ---------------------------------------------------------------------------
\* Correlator scenarios: requests, responses, sweeps and disconnects
\* ---------------------------------------------------------------------------
HistoryResponse(requestId) ==
    [channel |-> "props-history-response",
     data |-> [success |-> TRUE, requestId |-> requestId, error |-> ""]]

CorrPayloads ==
    {[requestId |-> id, complete |-> TRUE] : id \in ClientRequestIds \cup {NoRequestId}}

CorrConnect == \E c \in Consumers : ConsumerConnect(c)
CorrDisconnect == \E c \in Consumers : ConsumerDisconnect(c)

CorrSend ==
    \E c \in Consumers, payload \in CorrPayloads :
        /\ currentRateInfo(c).count < MaxBurst
        /\ Cardinality(upstreamForwarded) < MaxForwarded
        /\ ConsumerSend(c, "request-props-history", payload)

\* The upstream answers a request it was sent, or sends a response without id
CorrRespond ==
    \E requestId \in upstreamForwarded \cup {NoRequestId} :
        UpstreamDeliver(HistoryResponse(requestId))

CorrTick == Tick(PROPS_HISTORY_REQUEST_TTL_MS \div 3, MaxSweeps * PROPS_HISTORY_REQUEST_TTL_MS)

NextCorr ==
    \/ UpstreamConnect
    \/ CorrConnect
    \/ CorrDisconnect
    \/ CorrSend
    \/ OnRequestPropsHistory
    \/ CorrRespond
    \/ OnPropsHistoryResponse
    \/ CorrTick
    \/ Sweep

SpecCorr == Init /\ [][NextCorr]_vars

\* ---------------------------------------------------------------------------
\* Sweep scenarios: one consumer sends requests during the first MaxSweeps
\* sweep periods until one has been forwarded, and the clock runs two periods
\* longer; the clock and the sweep interval are never held up for ever
\* ---------------------------------------------------------------------------
LiveConnect == ConsumerConnect("s1")

LiveSend ==
    \E payload \in CorrPayloads :
        /\ now <= MaxSweeps * PROPS_HISTORY_REQUEST_TTL_MS
        /\ upstreamForwarded = {}
        /\ currentRateInfo("s1").count = 0
        /\ ConsumerSend("s1", "request-props-history", payload)

LiveTick ==
    Tick(PROPS_HISTORY_REQUEST_TTL_MS \div 3, (MaxSweeps + 2) * PROPS_HISTORY_REQUEST_TTL_MS)

NextLive ==
    \/ UpstreamConnect
    \/ LiveConnect
    \/ LiveSend
    \/ OnRequestPropsHistory
    \/ CorrRespond
    \/ OnPropsHistoryResponse
    \/ LiveTick
    \/ Sweep

SpecLive == Init /\ [][NextLive]_vars /\ WF_vars(LiveTick) /\ WF_vars(Sweep)

\* ---------------------------------------------------------------------------
\* Duplicate-response scenarios: no sweep and no disconnect, so that a pending
\* entry leaves the table only through a response; the upstream may answer a
\* forwarded request any number of times
\* ---------------------------------------------------------------------------
NextDup ==
    \/ UpstreamConnect
    \/ CorrConnect
    \/ CorrSend
    \/ OnRequestPropsHistory
    \/ CorrRespond
    \/ OnPropsHistoryResponse

SpecDup == Init /\ [][NextDup]_vars

\* ---------------------------------------------------------------------------
\* Rate-limit scenarios: bursts of requests within and across windows
\* ---------------------------------------------------------------------------
RatePayloads == {[requestId |-> id, complete |-> complete] : id \in ClientRequestIds, complete \in BOOLEAN}

RateConnect == \E c \in Consumers : ConsumerConnect(c)

RateSend ==
    \E c \in Consumers, payload \in RatePayloads :
        ConsumerSend(c, "request-props-history", payload)

RateTick == Tick(PROPS_HISTORY_RATE_LIMIT_WINDOW_MS, MaxWindows * PROPS_HISTORY_RATE_LIMIT_WINDOW_MS)

NextRate ==
    \/ UpstreamConnect
    \/ RateConnect
    \/ RateSend
    \/ OnRequestPropsHistory
    \/ RateTick

SpecRate == Init /\ [][NextRate]_vars

\* ---------------------------------------------------------------------------
\* Connectivity scenarios: the upstream connection is lost, fails to come back
\* and comes back while all three caches are filled and a request is pending
\* ---------------------------------------------------------------------------
ConnMessages ==
    {[channel |-> "odds-update",
      data |-> [sports |-> [s \in {"nba"} |->
                    <<Game("E1", Duke, UNC, <<[key |-> "pinnacle", price |-> 1]>>)>>]]],
     [channel |-> "scores-update",
      data |-> [sports |-> <<[key |-> "nba", events |->
                    <<[id |-> "E1", home_team |-> Duke, away_team |-> UNC,
                       home_score |-> 3, away_score |-> 5]>>]>>]],
     [channel |-> "fanduel-props-update", data |-> [sports |-> "props"]]}

ConnDeliver == \E msg \in ConnMessages : UpstreamDeliver(msg)
ConnJoin == ConsumerConnect("s1")

ConnSend ==
    /\ currentRateInfo("s1").count < MaxBurst
    /\ Cardinality(upstreamForwarded) < MaxForwarded
    /\ ConsumerSend("s1", "request-props-history", [requestId |-> NoRequestId, complete |-> TRUE])

NextConn ==
    \/ UpstreamConnect
    \/ UpstreamDisconnect
    \/ UpstreamFail
    \/ UpstreamError
    \/ OnConnectError
    \/ OnError
    \/ ConnDeliver
    \/ OnOddsUpdate
    \/ OnScoresUpdate
    \/ OnPropsUpdate
    \/ ConnJoin
    \/ ConnSend
    \/ OnRequestPropsHistory

SpecConn == Init /\ [][NextConn]_vars

\* ---------------------------------------------------------------------------
\* Isolation scenarios: null payloads between well-formed messages on the
\* odds, scores, props and history-response channels
\* ---------------------------------------------------------------------------
MalformedMessages ==
    {[channel |-> ch, data |-> Null] :
        ch \in {"odds-update", "scores-update", "fanduel-props-update", "props-history-response"}}

IsoDeliver ==
    \E msg \in ConnMessages \cup MalformedMessages \cup {HistoryResponse(NoRequestId)} :
        UpstreamDeliver(msg)

IsoJoin == ConsumerConnect("s1")

NextIso ==
    \/ UpstreamConnect
    \/ IsoDeliver
    \/ IsoJoin
    \/ OnOddsUpdate
    \/ OnScoresUpdate
    \/ OnPropsUpdate
    \/ OnPropsHistoryResponse

SpecIso == Init /\ [][NextIso]_vars

\* ---------------------------------------------------------------------------
\* Props slot scenarios: every props channel carries one of two payloads or
\* null, between odds and scores updates
\* ---------------------------------------------------------------------------
SlotMessages ==
    {[channel |-> ch, data |-> data] :
        ch \in PropsChannels, data \in {[sports |-> "props-a"], [sports |-> "props-b"], Null}}
    \cup {msg \in ConnMessages : msg.channel \in {"odds-update", "scores-update"}}

SlotDeliver == \E msg \in SlotMessages : UpstreamDeliver(msg)

NextSlot ==
    \/ UpstreamConnect
    \/ SlotDeliver
    \/ OnPropsUpdate
    \/ OnOddsUpdate
    \/ OnScoresUpdate

SpecSlot == Init /\ [][NextSlot]_vars

\* ---------------------------------------------------------------------------
\* Normalizer scenarios: flat arrays of events under external sport keys with
\* an entry in the lookup table, without one, and under a canonical key
\* ---------------------------------------------------------------------------
FlatEvent(id, sportKey) ==
    [sport_key |-> sportKey, commence_time |-> "19:00"]
        @@ Game(id, Duke, UNC, <<[key |-> "pinnacle", price |-> 1]>>)

FlatEvents ==
    {FlatEvent("F1", "basketball_nba"), FlatEvent("F2", "americanfootball_nfl"),
     FlatEvent("F3", "soccer_epl"), FlatEvent("F4", "nba")}

FlatOddsMessages ==
    {[channel |-> "odds-update", data |-> [array |-> events]] :
        events \in SeqsUpTo(FlatEvents, MaxFlatEvents)}

NormDeliver == \E msg \in FlatOddsMessages : UpstreamDeliver(msg)

NextNorm ==
    \/ UpstreamConnect
    \/ NormDeliver
    \/ OnOddsUpdate

SpecNorm == Init /\ [][NextNorm]_vars

\* ---------------------------------------------------------------------------
\* Averages scenarios: the first odds-update after the connection carries one
\* Event (Duke at home against UNC) whose bookmakers quote spreads, totals
\* and moneylines, with sides, points or whole markets left out
\* ---------------------------------------------------------------------------
AvgBookKeys == <<"pinnacle", "fanduel", "draftkings", "betmgm", "caesars">>

SpreadsMarket(point, price) ==
    [key |-> "spreads",
     outcomes |-> <<[name |-> Duke, point |-> point, price |-> price],
                    [name |-> UNC, point |-> -point, price |-> -110]>>]

AvgMarkets ==
    {<<SpreadsMarket(point, price)>> : point \in {-6, -7, -8}, price \in {-110, -105}}
    \cup {<<[key |-> "spreads", outcomes |-> <<[name |-> Duke, price |-> -110]>>]>>,
          <<[key |-> "totals",
             outcomes |-> <<[name |-> "Over", point |-> 9, price |-> -110],
                            [name |-> "Under", point |-> 9, price |-> -105]>>]>>,
          <<[key |-> "totals",
             outcomes |-> <<[name |-> "Over", point |-> 10, price |-> -105]>>]>>,
          <<[key |-> "h2h",
             outcomes |-> <<[name |-> Duke, price |-> 120], [name |-> UNC, price |-> -140]>>]>>,
          <<[key |-> "h2h", outcomes |-> <<[name |-> Duke, price |-> 125]>>]>>,
          <<SpreadsMarket(-7, -110),
            [key |-> "h2h", outcomes |-> <<[name |-> UNC, price |-> -135]>>]>>,
          <<>>}

AvgBookmakers ==
    {[i \in 1..Len(ms) |-> [key |-> AvgBookKeys[i], markets |-> ms[i]]] :
        ms \in SeqsUpTo(AvgMarkets, MaxAvgBooks)}

AvgOddsMessages ==
    {[channel |-> "odds-update",
      data |-> [sports |-> [ncaab |-> <<Game("A1", Duke, UNC, bookmakers)>>]]] :
        bookmakers \in AvgBookmakers}

InitAvg ==
    /\ latestOddsData = Null
    /\ latestScoresData = Null
    /\ latestProps = [ch \in PropsChannels |-> Null]
    /\ upstreamInbox \in AvgOddsMessages
    /\ upstreamConnected = TRUE
    /\ reconnectAttempts = 0
    /\ upstreamHalted = FALSE
    /\ upstreamForwarded = {}
    /\ consumerInbox = NoEvent
    /\ handlerTrace = {}
    /\ mergeTrace = {}
    /\ sockets = [c \in Consumers |-> [state |-> "absent", propsAllowed |-> FALSE]]
    /\ propsHistoryRequests = {}
    /\ propsHistoryRateLimits = <<>>
    /\ now = 0
    /\ nextSweep = PROPS_HISTORY_REQUEST_TTL_MS
    /\ historyWatchers = <<>>
    /\ timers = {}
    /\ watchPc = {}
    /\ nextTimer = 1
    /\ emitted = {}

NextAvg == OnOddsUpdate

SpecAvg == InitAvg /\ [][NextAvg]_vars

\* ---------------------------------------------------------------------------
\* Capacity scenarios: the pending table one entry short of its maximum.
\* The entries present at the start were registered by other connected
\* consumers during the ten seconds before; their owner is written "others".
\* ---------------------------------------------------------------------------
BackgroundPending ==
    {[requestId |-> [prefix |-> "bg", now |-> i, rand |-> ""],
      socketId |-> "others",
      createdAt |-> PROPS_HISTORY_REQUEST_TTL_MS \div 3] :
        i \in 1..(MAX_PENDING_PROPS_HISTORY_REQUESTS - 1)}

InitCap ==
    /\ latestOddsData = Null
    /\ latestScoresData = Null
    /\ latestProps = [ch \in PropsChannels |-> Null]
    /\ upstreamInbox = NoMsg
    /\ upstreamConnected = TRUE
    /\ reconnectAttempts = 0
    /\ upstreamHalted = FALSE
    /\ upstreamForwarded = {}
    /\ consumerInbox = NoEvent
    /\ handlerTrace = {}
    /\ mergeTrace = {}
    /\ sockets = [c \in Consumers |-> [state |-> "absent", propsAllowed |-> FALSE]]
    /\ propsHistoryRequests = BackgroundPending
    /\ propsHistoryRateLimits = <<>>
    /\ now = PROPS_HISTORY_REQUEST_TTL_MS \div 3
    /\ nextSweep = PROPS_HISTORY_REQUEST_TTL_MS
    /\ historyWatchers = <<>>
    /\ timers = {}
    /\ watchPc = {}
    /\ nextTimer = 1
    /\ emitted = {}

CapPayloads ==
    {[requestId |-> id, complete |-> complete] :
        id \in ClientRequestIds \cup {NoRequestId}, complete \in BOOLEAN}

CapConnect == \E c \in Consumers : ConsumerConnect(c)
CapDisconnect == \E c \in Consumers : ConsumerDisconnect(c)

CapSend ==
    \E c \in Consumers, payload \in CapPayloads :
        /\ currentRateInfo(c).count < MaxBurst
        /\ ConsumerSend(c, "request-props-history", payload)

NextCap ==
    \/ UpstreamDisconnect
    \/ CapConnect
    \/ CapDisconnect
    \/ CapSend
    \/ OnRequestPropsHistory

SpecCap == InitCap /\ [][NextCap]_vars

\* ---------------------------------------------------------------------------
\* Quota scenarios: one consumer sends a burst of requests within one window
\* while the pending table is one entry short of its maximum
\* ---------------------------------------------------------------------------
QuotaConnect == ConsumerConnect("s1")

QuotaSend ==
    \E payload \in CapPayloads : ConsumerSend("s1", "request-props-history", payload)

NextQuota ==
    \/ QuotaConnect
    \/ QuotaSend
    \/ OnRequestPropsHistory

SpecQuota == InitCap /\ [][NextQuota]_vars

\* ---------------------------------------------------------------------------
\* History watchers (index.js:251-258, 2779-2854)
\* A timer is [id, owner, event]; a suspended handler is [socket, event, key].
\* ---------------------------------------------------------------------------
\* `${eventId}|${book}|${market}|${hours || ''}`, index.js:2783
watchKey(params) == <<params.eventId, params.book, params.market>>

\* `${eventId}|multi|${uniqBooks.join(',')}|${market}|${hours || ''}`, index.js:2809
watchMultiKey(params) == <<params.eventId, "multi", params.books, params.market>>

\* socket.emit on a socket that has disconnected reaches nobody
emitTo(c, event, payload) ==
    IF IsConnected(c) THEN {[event |-> event, payload |-> payload, room |-> c]} ELSE {}

\* 'watch-history' handler up to its `await sendUpdate()`, index.js:2779-2798
OnWatchHistory ==
    /\ consumerInbox.event = "watch-history"
    /\ LET c == consumerInbox.socket
           params == consumerInbox.payload
       IN IF params.eventId = NoId \/ params.book = NoId \/ params.market = NoId
          THEN /\ handlerTrace' = {"watch-ignored"}
               /\ UNCHANGED <<historyWatchers, timers, watchPc>>
          ELSE /\ timers' = clearedTimers(c)
               /\ historyWatchers' = MapDelete(historyWatchers, c)
               /\ watchPc' = watchPc \cup {[socket |-> c, event |-> "history-update",
                                            key |-> watchKey(params)]}
               /\ handlerTrace' = {"watch-fetching"}
    /\ emitted' = {}
    /\ consumerInbox' = NoEvent
    /\ UNCHANGED <<storeVars, latestProps, upstreamInbox, connVars, sockets,
                   corrVars, clockVars, nextTimer>>

\* 'watch-history-multi' handler up to its `await sendUpdate()`, index.js:2804-2846
OnWatchHistoryMulti ==
    /\ consumerInbox.event = "watch-history-multi"
    /\ LET c == consumerInbox.socket
           params == consumerInbox.payload
       IN IF params.eventId = NoId \/ params.books = <<>> \/ params.market = NoId
          THEN /\ handlerTrace' = {"watch-ignored"}
               /\ UNCHANGED <<historyWatchers, timers, watchPc>>
          ELSE /\ timers' = clearedTimers(c)
               /\ historyWatchers' = MapDelete(historyWatchers, c)
               /\ watchPc' = watchPc \cup {[socket |-> c, event |-> "history-multi-update",
                                            key |-> watchMultiKey(params)]}
               /\ handlerTrace' = {"watch-fetching"}
    /\ emitted' = {}
    /\ consumerInbox' = NoEvent
    /\ UNCHANGED <<storeVars, latestProps, upstreamInbox, connVars, sockets,
                   corrVars, clockVars, nextTimer>>

\* The initial fetch of a watch handler settles: the first update is emitted,
\* the interval is started and registered (index.js:2792-2800, 2833-2848)
WatchResume(w) ==
    /\ w \in watchPc
    /\ watchPc' = watchPc \ {w}
    /\ emitted' = emitTo(w.socket, w.event, w.key)
    /\ timers' = timers \cup {[id |-> nextTimer, owner |-> w.socket, event |-> w.event, key |-> w.key]}
    /\ nextTimer' = nextTimer + 1
    /\ historyWatchers' = MapSet(historyWatchers, w.socket, [key |-> w.key, timer |-> nextTimer])
    /\ handlerTrace' = {"watch-registered"}
    /\ UNCHANGED <<storeVars, latestProps, upstreamInbox, connVars, consumerInbox, sockets,
                   corrVars, clockVars>>

\* 'unwatch-history' handler, index.js:2851-2854
OnUnwatchHistory ==
    /\ consumerInbox.event = "unwatch-history"
    /\ timers' = clearedTimers(consumerInbox.socket)
    /\ historyWatchers' = MapDelete(historyWatchers, consumerInbox.socket)
    /\ emitted' = {}
    /\ handlerTrace' = {"unwatch"}
    /\ consumerInbox' = NoEvent
    /\ UNCHANGED <<storeVars, latestProps, upstreamInbox, connVars, sockets,
                   corrVars, clockVars, watchPc, nextTimer>>

\* An active interval fires: sendUpdate runs again (HISTORY_POLL_MS later)
TimerFire(t) ==
    /\ t \in timers
    /\ emitted' = emitTo(t.owner, t.event, t.key)
    /\ handlerTrace' = {"poll"}
    /\ UNCHANGED <<storeVars, latestProps, upstreamInbox, connVars, consumerInbox, sockets,
                   corrVars, clockVars, watchVars>>

\* ---------------------------------------------------------------------------
\* Watcher scenarios: watch requests interleaved with disconnects
\* ---------------------------------------------------------------------------
WatchParams ==
    {[eventId |-> "E1", book |-> "pinnacle", market |-> "spreads"],
     [eventId |-> NoId, book |-> "pinnacle", market |-> "spreads"]}

WatchMultiParams ==
    {[eventId |-> "E1", books |-> <<"fanduel", "pinnacle">>, market |-> "spreads"],
     [eventId |-> "E1", books |-> <<>>, market |-> "spreads"]}

\* Watch requests are sent while fewer than MaxTimers intervals have been or
\* are about to be started
WatchBudget == nextTimer + Cardinality(watchPc) <= MaxTimers

WatchConnect == \E c \in Consumers : ConsumerConnect(c)
WatchDisconnect == \E c \in Consumers : ConsumerDisconnect(c)
WatchSend ==
    \E c \in Consumers :
        \/ \E params \in WatchParams : WatchBudget /\ ConsumerSend(c, "watch-history", params)
        \/ \E params \in WatchMultiParams : WatchBudget /\ ConsumerSend(c, "watch-history-multi", params)
        \/ ConsumerSend(c, "unwatch-history", <<>>)
WatchSettle == \E w \in watchPc : WatchResume(w)
WatchPoll == \E t \in timers : TimerFire(t)

NextWatch ==
    \/ WatchConnect
    \/ WatchDisconnect
    \/ WatchSend
    \/ OnWatchHistory
    \/ OnWatchHistoryMulti
    \/ WatchSettle
    \/ OnUnwatchHistory
    \/ WatchPoll

SpecWatch == Init /\ [][NextWatch]_vars

\* The handler of an upstream odds message runs in this step
OddsStep == upstreamInbox.channel = "odds-update" /\ upstreamInbox' = NoMsg

CachedGames(sport) ==
    IF latestOddsData # Null /\ sport \in DOMAIN latestOddsData THEN latestOddsData[sport] ELSE <<>>

\* C1: merge preservation. When an odds update carries a non-empty quote list
\* for an Event that is cached under the same sport and id, the stored Event
\* afterwards holds every incoming quote, holds no other quote of an incoming
\* bookKey (the older quote of that book is gone), and still holds every
\* cached quote whose bookKey the update omits.
C1_MergePreservation ==
    [][OddsStep =>
        \A s \in DOMAIN upstreamInbox.data.sports :
            /\ Len(latestOddsData'[s]) = Len(upstreamInbox.data.sports[s])
            /\ \A i \in 1..Len(upstreamInbox.data.sports[s]) :
                LET newGame == upstreamInbox.data.sports[s][i]
                    newQuotes == Range(newGame.bookmakers)
                    newKeys == {q.key : q \in newQuotes}
                    stored == Range(latestOddsData'[s][i].bookmakers)
                IN \A j \in 1..Len(CachedGames(s)) :
                    (newGame.id # NoId /\ CachedGames(s)[j].id = newGame.id /\ newQuotes # {}) =>
                        /\ newQuotes \subseteq stored
                        /\ \A q \in stored : q.key \in newKeys => q \in newQuotes
                        /\ \A q \in Range(CachedGames(s)[j].bookmakers) :
                                q.key \notin newKeys => q \in stored
    ]_vars

\* A stored Event merged by the last update holds quotes of three books at
\* two prices: quotes cached by earlier updates survived a non-empty update.
C1_Witness ==
    /\ latestOddsData # Null
    /\ \E s \in DOMAIN latestOddsData : \E i \in 1..Len(latestOddsData[s]) :
        LET quotes == Range(latestOddsData[s][i].bookmakers)
        IN /\ [sport |-> s, branch |-> "merge"] \in mergeTrace
           /\ Cardinality({q.key : q \in quotes}) >= 3
           /\ Cardinality({q.price : q \in quotes}) >= 2

\* C2: heartbeat tolerance. An incoming Event with zero quotes leaves the
\* cached Event of the same sport and id with exactly its previous quote list.
C2_HeartbeatTolerance ==
    [][OddsStep =>
        \A s \in DOMAIN upstreamInbox.data.sports :
            \A i \in 1..Len(upstreamInbox.data.sports[s]) :
                LET newGame == upstreamInbox.data.sports[s][i]
                IN \A j \in 1..Len(CachedGames(s)) :
                    (newGame.id # NoId /\ CachedGames(s)[j].id = newGame.id
                        /\ newGame.bookmakers = <<>>) =>
                        /\ i <= Len(latestOddsData'[s])
                        /\ latestOddsData'[s][i].bookmakers = CachedGames(s)[j].bookmakers
    ]_vars

\* The last update took the heartbeat branch for an Event that had quotes:
\* its averages are those of the quote-less incoming Event (null), its quotes
\* are the cached ones.
C2_Witness ==
    /\ latestOddsData # Null
    /\ \E s \in DOMAIN latestOddsData : \E i \in 1..Len(latestOddsData[s]) :
        /\ [sport |-> s, branch |-> "heartbeat"] \in mergeTrace
        /\ latestOddsData[s][i].bookmakers # <<>>
        /\ latestOddsData[s][i].averages = <<>>

\* C3: partial-sport isolation. An odds update whose sports mapping lacks
\* sport key Y leaves the cached event list of Y as it was (and does not
\* create one).
C3_PartialSportIsolation ==
    [][OddsStep =>
        \A y \in Sports :
            y \notin DOMAIN upstreamInbox.data.sports =>
                IF latestOddsData # Null /\ y \in DOMAIN latestOddsData
                THEN y \in DOMAIN latestOddsData' /\ latestOddsData'[y] = latestOddsData[y]
                ELSE y \notin DOMAIN latestOddsData'
    ]_vars

\* The last update merged events of nba only while nfl holds cached events.
C3_Witness ==
    /\ latestOddsData # Null
    /\ "nfl" \in DOMAIN latestOddsData
    /\ latestOddsData["nfl"] # <<>>
    /\ mergeTrace # {}
    /\ \A t \in mergeTrace : t.sport = "nba"

\* Two canonical team names coincide when both are non-empty and one is a
\* prefix of the other
NamesCoincide(a, b) ==
    LET ka == normalizeTeamKey(a)
        kb == normalizeTeamKey(b)
    IN ka # <<>> /\ kb # <<>> /\ (startsWith(ka, kb) \/ startsWith(kb, ka))

\* C6: both-sides fuzzy rule. In every broadcast merged view, an odds Event
\* that carries a score although no score record has its id or its team-pair
\* key (so the fuzzy step supplied the score) has a score record whose home and
\* away names both coincide with the Event's names, directly or swapped; a
\* record sharing only one team name is never overlaid.
C6_BothSidesFuzzy ==
    \A e \in emitted :
        e.event = "odds-update" =>
            \A s \in DOMAIN e.payload : \A i \in 1..Len(e.payload[s]) :
                LET ev == latestOddsData[s][i]
                    scores == IF latestScoresData = Null THEN <<>>
                              ELSE Flatten(latestScoresData.sports)
                    viaFuzzy ==
                        /\ "home_score" \in DOMAIN e.payload[s][i]
                        /\ \A k \in 1..Len(scores) :
                            /\ scores[k].id # ev.id
                            /\ buildTeamsKey(scores[k].away_team, scores[k].home_team)
                                   # buildTeamsKey(ev.away_team, ev.home_team)
                IN viaFuzzy =>
                    \E k \in 1..Len(scores) :
                        \/ /\ NamesCoincide(scores[k].home_team, ev.home_team)
                           /\ NamesCoincide(scores[k].away_team, ev.away_team)
                        \/ /\ NamesCoincide(scores[k].away_team, ev.home_team)
                           /\ NamesCoincide(scores[k].home_team, ev.away_team)

\* C5: tier filtering. In every reachable state, every props-update event of
\* any bookmaker channel that the last handler emitted went to one connected
\* consumer whose props capability flag is true; none went to all consumers
\* and none to a consumer whose flag is false.
C5_TierFiltering ==
    \A e \in emitted :
        e.event \in PropsChannels =>
            /\ e.room \in Consumers
            /\ sockets[e.room].propsAllowed

\* A props update was broadcast while a consumer without the capability was
\* connected, and a consumer with the capability received it
C5_Witness ==
    /\ handlerTrace \cap PropsChannels # {}
    /\ \E c \in Consumers : IsConnected(c) /\ ~sockets[c].propsAllowed
    /\ \E e \in emitted : e.event \in PropsChannels /\ sockets[e.room].propsAllowed

\* The handler of an upstream props-history response runs in this step
ResponseStep == upstreamInbox.channel = "props-history-response" /\ upstreamInbox' = NoMsg

\* The handler of a consumer's props-history request runs in this step
RequestStep == consumerInbox.event = "request-props-history" /\ consumerInbox' = NoEvent

\* The disconnect handler of consumer c runs in this step
DisconnectStep(c) == IsConnected(c) /\ sockets'[c].state = "gone"

\* Pending entries registered under the request id of the response being handled
MatchingPending == {r \in propsHistoryRequests : r.requestId = upstreamInbox.data.requestId}

\* C4: request correlation routing. Whenever an upstream props-history
\* response is handled, every emission it causes goes to the one consumer that
\* registered the pending request with the response's request id, and no
\* emission goes to all consumers.
C4_RequestCorrelationRouting ==
    [][ResponseStep =>
        \A e \in emitted' :
            /\ e.room # "all"
            /\ \E r \in MatchingPending : r.socketId = e.room]_vars

\* C7: TTL expiry. A pending request is never kept in the table for longer
\* than the TTL, and an upstream response that arrives for a request id more
\* than the TTL after the request was registered is delivered to no consumer.
C7_TtlExpiry ==
    /\ [](\A r \in propsHistoryRequests : now - r.createdAt <= PROPS_HISTORY_REQUEST_TTL_MS)
    /\ [][ResponseStep =>
            \A r \in MatchingPending :
                now - r.createdAt > PROPS_HISTORY_REQUEST_TTL_MS => emitted' = {}]_vars

\* C8: disconnect purge. The step that handles a consumer's disconnect leaves
\* no pending entry whose origin is that consumer and no rate-limit counter for
\* it; pending entries only ever belong to connected consumers, and an upstream
\* response carrying a request id is delivered only to a connected consumer
\* that holds the pending entry for that id, so a response for a purged id is
\* dropped.
C8_DisconnectPurge ==
    /\ [](\A r \in propsHistoryRequests : IsConnected(r.socketId))
    /\ [][\A c \in Consumers :
            DisconnectStep(c) =>
                /\ \A r \in propsHistoryRequests' : r.socketId # c
                /\ c \notin DOMAIN propsHistoryRateLimits']_vars
    /\ [][(ResponseStep /\ upstreamInbox.data.requestId # NoRequestId) =>
            /\ \A e \in emitted' :
                  /\ e.room \in Consumers
                  /\ IsConnected(e.room)
                  /\ \E r \in MatchingPending : r.socketId = e.room
            /\ MatchingPending = {} => propsHistoryRequests' = propsHistoryRequests]_vars

\* A consumer that had a pending request and a rate-limit counter has just
\* been disconnected, and the request id it had sent upstream is no longer
\* pending
C8_Witness ==
    /\ handlerTrace = {"disconnect", "had-pending", "had-rate-limit"}
    /\ \E c \in Consumers : sockets[c].state = "gone"
    /\ upstreamForwarded # {}
    /\ propsHistoryRequests = {}

\* C10: rate limiting. When a consumer with the props capability has already
\* had the cap (10) of requests counted in the current 1000 ms window, its next
\* request in that window is answered with the rate-limit rejection, is not
\* registered and is not forwarded; a request that arrives after the window
\* has elapsed is not rate-limited and starts a new window with a count of one.
C10_RateLimiting ==
    [][RequestStep /\ sockets[consumerInbox.socket].propsAllowed =>
        LET c == consumerInbox.socket
            rateInfo == storedRateInfo(c)
            elapsed == now - rateInfo.windowStart > PROPS_HISTORY_RATE_LIMIT_WINDOW_MS
            limited == \E e \in emitted' :
                          /\ e.room = c
                          /\ e.payload.error = "Rate limit exceeded, try again later"
        IN /\ (~elapsed /\ rateInfo.count >= PROPS_HISTORY_MAX_REQUESTS_PER_WINDOW) =>
                /\ limited
                /\ UNCHANGED <<propsHistoryRequests, upstreamForwarded>>
           /\ (~elapsed /\ rateInfo.count < PROPS_HISTORY_MAX_REQUESTS_PER_WINDOW) =>
                /\ ~limited
                /\ propsHistoryRateLimits'[c] = [rateInfo EXCEPT !.count = rateInfo.count + 1]
           /\ elapsed =>
                /\ ~limited
                /\ propsHistoryRateLimits'[c] = [count |-> 1, windowStart |-> now]]_vars

\* The eleventh request of one window has just been rejected
C10_Witness ==
    /\ handlerTrace = {"request-rate-limited"}
    /\ \E c \in Consumers :
        /\ c \in DOMAIN propsHistoryRateLimits
        /\ propsHistoryRateLimits[c].count = PROPS_HISTORY_MAX_REQUESTS_PER_WINDOW
        /\ now - propsHistoryRateLimits[c].windowStart <= PROPS_HISTORY_RATE_LIMIT_WINDOW_MS
        /\ \E e \in emitted : e.room = c

\* C9: polling cancellation. In every reachable state, whatever the order of a
\* consumer's watch-history / watch-history-multi requests, the settling of
\* their initial fetches and its disconnect, every active history-polling
\* interval belongs to a consumer that is still connected.
C9_PollingCancellation ==
    \A t \in timers : IsConnected(t.owner)

\* C11: pending-table cap. In every reachable state the pending table holds
\* at most MAX_PENDING_PROPS_HISTORY_REQUESTS entries, and a request handled
\* while the table is at capacity is answered with a rejection to the
\* requester and leaves the table unchanged.
C11_PendingTableCap ==
    /\ [](Cardinality(propsHistoryRequests) <= MAX_PENDING_PROPS_HISTORY_REQUESTS)
    /\ [][(RequestStep /\ Cardinality(propsHistoryRequests) >= MAX_PENDING_PROPS_HISTORY_REQUESTS) =>
            /\ \E e \in emitted' :
                  /\ e.event = "props-history-response"
                  /\ e.room = consumerInbox.socket
                  /\ ~e.payload.success
            /\ propsHistoryRequests' = propsHistoryRequests]_vars

\* A request that passed the capability check and the rate limiter has just
\* been rejected because the table is full
C11_Witness ==
    /\ handlerTrace = {"request-overloaded"}
    /\ Cardinality(propsHistoryRequests) = MAX_PENDING_PROPS_HISTORY_REQUESTS
    /\ \E e \in emitted : e.payload.error = "Server overloaded, try again later"

\* The request being handled passes the capability check, the rate limiter,
\* the capacity check and the validation, so the handler tries to relay it
ReachesRelay ==
    /\ sockets[consumerInbox.socket].propsAllowed
    /\ currentRateInfo(consumerInbox.socket).count < PROPS_HISTORY_MAX_REQUESTS_PER_WINDOW
    /\ Cardinality(propsHistoryRequests) < MAX_PENDING_PROPS_HISTORY_REQUESTS
    /\ consumerInbox.payload.complete

\* C12: relay failure. When the handler of an on-demand request tries to relay
\* it while the upstream is not connected, then after the handler the table
\* holds no entry under the request's id, nothing was forwarded, and the
\* requester has been sent the failure response carrying that id.
C12_RelayFailure ==
    [][(RequestStep /\ ReachesRelay /\ ~upstreamConnected) =>
        /\ upstreamForwarded' = upstreamForwarded
        /\ \E e \in emitted' :
              /\ e.event = "props-history-response"
              /\ e.room = consumerInbox.socket
              /\ ~e.payload.success
              /\ e.payload.error = "Upstream not connected"
              /\ consumerInbox.payload.requestId # NoRequestId =>
                    e.payload.requestId = consumerInbox.payload.requestId
              /\ \A r \in propsHistoryRequests' : r.requestId # e.payload.requestId]_vars

\* A valid request has just been refused because the upstream is down
C12_Witness ==
    /\ handlerTrace = {"request-not-forwarded"}
    /\ ~upstreamConnected
    /\ \E e \in emitted :
          /\ e.payload.error = "Upstream not connected"
          /\ IsConnected(e.room)
          /\ \A r \in propsHistoryRequests : r.requestId # e.payload.requestId

\* C13: unique request ids. The handler of an on-demand request never removes
\* or re-targets a pending entry that belongs to another consumer: every entry
\* of another consumer that is pending before the handler runs is still
\* pending, unchanged, after it.
C13_UniqueRequestIds ==
    [][RequestStep =>
        \A r \in propsHistoryRequests :
            r.socketId # consumerInbox.socket => r \in propsHistoryRequests']_vars

\* The rejection sent to consumer c by the handler of this step, if any
RejectionsTo(c) ==
    {e \in emitted' : e.event = "props-history-response" /\ e.room = c /\ ~e.payload.success}

C15_NoSilentTimeouts ==
    [][\A r \in propsHistoryRequests :
          (r \notin propsHistoryRequests' /\ IsConnected(r.socketId)
              /\ sockets'[r.socketId].state = "connected") =>
            \E e \in emitted' :
                e.event = "props-history-response" /\ e.room = r.socketId]_vars

\* Canonical team-pair key of an odds Event
TeamPairKey(ev) == buildTeamsKey(ev.away_team, ev.home_team)

\* C16: merge identity. When an incoming Event carries no id and the cached
\* list of its sport holds an Event with the same canonical team-pair key, the
\* stored Event keeps every cached quote of that Event whose bookKey the
\* incoming Event omits.
C16_MergeIdentity ==
    [][OddsStep =>
        \A s \in DOMAIN upstreamInbox.data.sports :
            \A i \in 1..Len(upstreamInbox.data.sports[s]) :
                LET newGame == upstreamInbox.data.sports[s][i]
                    newKeys == {q.key : q \in Range(newGame.bookmakers)}
                IN \A j \in 1..Len(CachedGames(s)) :
                    (newGame.id = NoId /\ TeamPairKey(newGame) # NoKey
                        /\ TeamPairKey(CachedGames(s)[j]) = TeamPairKey(newGame)) =>
                        \A q \in Range(CachedGames(s)[j].bookmakers) :
                            q.key \notin newKeys =>
                                q \in Range(latestOddsData'[s][i].bookmakers)
    ]_vars

\* C17: team-pair uniqueness. In every reachable state of the odds store no
\* two Events of one sport bucket have the same canonical team-pair key.
C17_TeamPairUniqueness ==
    latestOddsData # Null =>
        \A s \in DOMAIN latestOddsData :
            \A i, j \in 1..Len(latestOddsData[s]) :
                (i # j /\ TeamPairKey(latestOddsData[s][i]) # NoKey) =>
                    TeamPairKey(latestOddsData[s][i]) # TeamPairKey(latestOddsData[s][j])

\* C18: field-level merge preservation. When an incoming Event is merged into
\* the cached Event of the same id, every non-quote field the incoming Event
\* supplies is stored with the incoming value, and every cached field the
\* incoming Event omits is still in the stored Event with its cached value.
C18_FieldLevelMerge ==
    [][OddsStep =>
        \A s \in DOMAIN upstreamInbox.data.sports :
            \A i \in 1..Len(upstreamInbox.data.sports[s]) :
                LET newGame == upstreamInbox.data.sports[s][i]
                    found == prevByEventId(CachedGames(s), newGame.id)
                    stored == latestOddsData'[s][i]
                IN found # <<>> =>
                    /\ \A f \in DOMAIN newGame \ {"bookmakers"} :
                          f \in DOMAIN stored /\ stored[f] = newGame[f]
                    /\ \A f \in DOMAIN found[1] \ (DOMAIN newGame \cup {"averages"}) :
                          f \in DOMAIN stored /\ stored[f] = found[1][f]
    ]_vars

\* The score records in the cache, in index order
CachedScores == IF latestScoresData = Null THEN <<>> ELSE Flatten(latestScoresData.sports)

\* Indices of the cached score records matching an odds Event at each step
IdHits(ev) == {k \in 1..Len(CachedScores) : ev.id # NoId /\ CachedScores[k].id = ev.id}

KeyHits(ev) ==
    {k \in 1..Len(CachedScores) :
        /\ TeamPairKey(ev) # NoKey
        /\ TeamPairKey(CachedScores[k]) = TeamPairKey(ev)}

DirectHits(ev) ==
    {k \in 1..Len(CachedScores) :
        /\ NamesCoincide(CachedScores[k].home_team, ev.home_team)
        /\ NamesCoincide(CachedScores[k].away_team, ev.away_team)}

SwappedHits(ev) ==
    {k \in 1..Len(CachedScores) :
        /\ NamesCoincide(CachedScores[k].away_team, ev.home_team)
        /\ NamesCoincide(CachedScores[k].home_team, ev.away_team)}

\* The broadcast Event carries the given home and away score
Shows(out, home, away) ==
    /\ "home_score" \in DOMAIN out
    /\ out.home_score = home
    /\ out.away_score = away

\* C19: resolver precedence. In every broadcast merged view, an odds Event
\* whose id some cached score record has carries the scores of such a record,
\* whatever other records match it by team-pair key or by prefix; otherwise,
\* when some record has its canonical team-pair key, it carries the scores of
\* such a record, whatever records match by prefix; otherwise, when some
\* record coincides with it on both names, it carries that record's scores
\* (exchanged when the names coincide crosswise).
C19_ResolverPrecedence ==
    \A e \in emitted :
        e.event = "odds-update" =>
            \A s \in DOMAIN e.payload : \A i \in 1..Len(e.payload[s]) :
                LET ev == latestOddsData[s][i]
                    out == e.payload[s][i]
                IN IF IdHits(ev) # {}
                   THEN \E k \in IdHits(ev) :
                            Shows(out, CachedScores[k].home_score, CachedScores[k].away_score)
                   ELSE IF KeyHits(ev) # {}
                   THEN \E k \in KeyHits(ev) :
                            Shows(out, CachedScores[k].home_score, CachedScores[k].away_score)
                   ELSE IF DirectHits(ev) \cup SwappedHits(ev) # {}
                   THEN \/ \E k \in DirectHits(ev) :
                            Shows(out, CachedScores[k].home_score, CachedScores[k].away_score)
                        \/ \E k \in SwappedHits(ev) :
                            Shows(out, CachedScores[k].away_score, CachedScores[k].home_score)
                   ELSE "home_score" \notin DOMAIN out

\* A merged view was broadcast in which one Event had an id match, a team-pair
\* match and a prefix-only match, all three with different scores
C19_Witness ==
    \E e \in emitted :
        /\ e.event = "odds-update"
        /\ \E s \in DOMAIN e.payload : \E i \in 1..Len(e.payload[s]) :
            LET ev == latestOddsData[s][i]
            IN /\ IdHits(ev) # {}
               /\ KeyHits(ev) \ IdHits(ev) # {}
               /\ DirectHits(ev) \ (IdHits(ev) \cup KeyHits(ev)) # {}
               /\ \E k \in IdHits(ev) :
                    Shows(e.payload[s][i], CachedScores[k].home_score, CachedScores[k].away_score)

ScoresStep == upstreamInbox.channel = "scores-update" /\ upstreamInbox' = NoMsg

\* The score record matches the Event through the canonical team-pair key
\* only: another id, and raw names that differ from the Event's names
AliasOnly(score, ev) ==
    /\ score.id # ev.id
    /\ TeamPairKey(score) # NoKey
    /\ TeamPairKey(score) = TeamPairKey(ev)
    /\ score.home_team # ev.home_team
    /\ score.away_team # ev.away_team

\* The snapshot lists the Event with both scores and with a pinnacle and a
\* fanduel quote
ShowsScoredWithBothQuotes(snapshot, id) ==
    \E s \in DOMAIN snapshot : \E i \in 1..Len(snapshot[s]) :
        /\ snapshot[s][i].id = id
        /\ "home_score" \in DOMAIN snapshot[s][i]
        /\ "away_score" \in DOMAIN snapshot[s][i]
        /\ {"pinnacle", "fanduel"} \subseteq {q.key : q \in Range(snapshot[s][i].bookmakers)}

\* C20: alias resolution end to end. When the store holds E1 with a pinnacle
\* and a fanduel quote (one odds update each) and a score update arrives whose
\* record matches E1 only through the canonical team-pair key, handling that
\* score update broadcasts to all consumers a snapshot that shows E1 with home
\* and away score and with both quotes.
C20_AliasEndToEnd ==
    [][(/\ ScoresStep
        /\ \E g \in Range(CachedGames("nba")) :
            /\ g.id = "E1"
            /\ {q.key : q \in Range(g.bookmakers)} = {"pinnacle", "fanduel"}
            /\ \E score \in Range(Flatten(upstreamInbox.data.sports)) : AliasOnly(score, g))
        => \E e \in emitted' :
            /\ e.room = "all"
            /\ e.event = "odds-update"
            /\ ShowsScoredWithBothQuotes(e.payload, "E1")
    ]_vars

\* The fuzzy step supplied the score of the broadcast Event: the Event carries
\* a score and no cached score record has its id or its team-pair key
ViaFuzzy(ev, out) ==
    /\ "home_score" \in DOMAIN out
    /\ IdHits(ev) = {}
    /\ KeyHits(ev) = {}

\* C21: swap flip. In every broadcast merged view, an odds Event whose score
\* came from the fuzzy step carries either the home and away score of a record
\* whose names coincide with its own in the same orientation, unflipped, or
\* the away score as home score and the home score as away score of a record
\* whose names coincide with its own only crosswise.
C21_SwapFlip ==
    \A e \in emitted :
        e.event = "odds-update" =>
            \A s \in DOMAIN e.payload : \A i \in 1..Len(e.payload[s]) :
                LET ev == latestOddsData[s][i]
                    out == e.payload[s][i]
                IN ViaFuzzy(ev, out) =>
                    \/ \E k \in DirectHits(ev) :
                        Shows(out, CachedScores[k].home_score, CachedScores[k].away_score)
                    \/ \E k \in SwappedHits(ev) \ DirectHits(ev) :
                        Shows(out, CachedScores[k].away_score, CachedScores[k].home_score)

\* A merged view was broadcast in which the fuzzy step matched a record only
\* crosswise and the Event shows that record's scores exchanged
C21_Witness ==
    \E e \in emitted :
        /\ e.event = "odds-update"
        /\ \E s \in DOMAIN e.payload : \E i \in 1..Len(e.payload[s]) :
            LET ev == latestOddsData[s][i]
                out == e.payload[s][i]
            IN /\ ViaFuzzy(ev, out)
               /\ DirectHits(ev) = {}
               /\ \E k \in SwappedHits(ev) :
                    /\ CachedScores[k].home_score # CachedScores[k].away_score
                    /\ Shows(out, CachedScores[k].away_score, CachedScores[k].home_score)

\* No cached score record matches the odds Event at any step
Unmatched(ev) ==
    /\ IdHits(ev) = {}
    /\ KeyHits(ev) = {}
    /\ DirectHits(ev) \cup SwappedHits(ev) = {}

\* Every broadcast merged view lists the cached Events, each with its cached
\* quotes, and an Event no score record matches exactly as cached
QuotesAsCached ==
    \A e \in emitted :
        e.event = "odds-update" =>
            /\ DOMAIN e.payload = DOMAIN latestOddsData
            /\ \A s \in DOMAIN e.payload :
                /\ Len(e.payload[s]) = Len(latestOddsData[s])
                /\ \A i \in 1..Len(e.payload[s]) :
                    /\ e.payload[s][i].bookmakers = latestOddsData[s][i].bookmakers
                    /\ Unmatched(latestOddsData[s][i]) => e.payload[s][i] = latestOddsData[s][i]

\* C22: score overlay frame. A scores update leaves the odds store as it was;
\* in every broadcast merged view each Event has exactly its cached bookmaker
\* quotes, scored or not, and an Event that no score record matches is
\* broadcast exactly as cached.
C22_ScoreOverlayFrame ==
    /\ []QuotesAsCached
    /\ [][ScoresStep => latestOddsData' = latestOddsData]_vars

\* A merged view was broadcast in which an Event with quotes carries a score
C22_Witness ==
    \E e \in emitted :
        /\ e.event = "odds-update"
        /\ \E s \in DOMAIN e.payload : \E i \in 1..Len(e.payload[s]) :
            /\ "home_score" \in DOMAIN e.payload[s][i]
            /\ e.payload[s][i].bookmakers # <<>>
            /\ e.payload[s][i].bookmakers = latestOddsData[s][i].bookmakers

\* C23: merged-view emission. Every handling of an upstream odds update or of
\* an upstream scores update, with odds in the store afterwards, emits to all
\* consumers an odds-update whose payload is the merged view of the latest odds
\* and the latest scores.
C23_MergedViewEmission ==
    [][((OddsStep \/ ScoresStep) /\ latestOddsData' # Null) =>
        \E e \in emitted' :
            /\ e.room = "all"
            /\ e.event = "odds-update"
            /\ e.payload = mergeScoresIntoSports(latestOddsData', latestScoresData')
    ]_vars

JoinStep(c) == sockets[c].state = "absent" /\ sockets'[c].state = "connected"

\* C24: join replay. The step in which a consumer joins emits to that consumer
\* the merged odds view when odds are cached, the scores when scores are
\* cached, and, when the consumer has the props capability, the cached props
\* of every bookmaker channel that has any.
C24_JoinReplay ==
    [][\A c \in Consumers :
        JoinStep(c) =>
            /\ latestOddsData # Null =>
                \E e \in emitted' :
                    /\ e.room = c
                    /\ e.event = "odds-update"
                    /\ e.payload = mergeScoresIntoSports(latestOddsData, latestScoresData)
            /\ latestScoresData # Null =>
                \E e \in emitted' : e.room = c /\ e.event = "scores-update"
            /\ \A ch \in PropsChannels :
                (latestProps[ch] # Null /\ sockets'[c].propsAllowed) =>
                    \E e \in emitted' : e.room = c /\ e.event = ch
    ]_vars

ConnectStep == ~upstreamConnected /\ upstreamConnected'
ConnectErrorStep == upstreamInbox.channel = "connect_error" /\ upstreamInbox' = NoMsg

\* The connectivity state the health check reads: upstreamConnector.isConnected()
Healthy == upstreamConnected

\* C25: reconnect budget. Handling a failed connection attempt adds one to the
\* attempt counter, a successful connection sets it to zero, and once the
\* counter has reached the maximum no further attempt is made (none succeeds
\* and none fails) and the health check reads not connected.
C25_ReconnectBudget ==
    /\ [](reconnectAttempts >= maxReconnectAttempts => ~Healthy)
    /\ [][/\ ConnectErrorStep => reconnectAttempts' = reconnectAttempts + 1
          /\ ConnectStep => reconnectAttempts' = 0
          /\ reconnectAttempts >= maxReconnectAttempts =>
                /\ ~ConnectStep
                /\ upstreamInbox'.channel # "connect_error"
                /\ reconnectAttempts' = reconnectAttempts
       ]_vars

\* The counter reached the maximum after a connection that had succeeded was
\* lost
C25_Witness ==
    /\ reconnectAttempts = maxReconnectAttempts
    /\ ~Healthy
    /\ latestOddsData # Null

DisconnectedStep == upstreamConnected /\ ~upstreamConnected'
ErrorStep == upstreamInbox.channel = "error" /\ upstreamInbox' = NoMsg

\* C26: upstream connectivity events are store-neutral. A step in which the
\* upstream connection is lost, a connection attempt fails, the socket reports
\* an error or the connection comes back leaves the odds, scores and props
\* caches and the table of pending requests as they were.
C26_ConnectivityStoreNeutral ==
    [][(DisconnectedStep \/ ConnectErrorStep \/ ErrorStep \/ ConnectStep) =>
        /\ latestOddsData' = latestOddsData
        /\ latestScoresData' = latestScoresData
        /\ latestProps' = latestProps
        /\ propsHistoryRequests' = propsHistoryRequests
    ]_vars

\* The connection was lost and a connection attempt failed while all three
\* caches were filled and a request was pending, and they still are
C26_Witness ==
    /\ ~upstreamConnected
    /\ reconnectAttempts > 0
    /\ latestOddsData # Null
    /\ latestScoresData # Null
    /\ latestProps["fanduel-props-update"] # Null
    /\ propsHistoryRequests # {}

\* The handler of an upstream data message with a null payload runs
MalformedStep ==
    /\ upstreamInbox.channel \notin {"none", "connect_error", "error"}
    /\ upstreamInbox.data = Null
    /\ upstreamInbox' = NoMsg

\* C27: per-message isolation. Handling an upstream message whose payload is
\* null, on the odds, scores, props or history-response channel, leaves the
\* odds, scores and props caches as they were and raises no error out of the
\* handler.
C27_PerMessageIsolation ==
    [][MalformedStep =>
        /\ latestOddsData' = latestOddsData
        /\ latestScoresData' = latestScoresData
        /\ latestProps' = latestProps
        /\ "uncaught TypeError" \notin handlerTrace'
    ]_vars

\* The ids of a list of events, in order
Ids(events) == [i \in 1..Len(events) |-> events[i].id]

\* The ids of the events of a flat array whose sport key is in keys, in order
IdsWhere(events, keys) ==
    LET Chosen(e) == e.sport_key \in keys IN Ids(SelectSeq(events, Chosen))

FlatStep == OddsStep /\ "array" \in DOMAIN upstreamInbox.data

\* C28 as stated: after a flat array of events is handled, each canonical
\* bucket holds exactly the events whose external sport key the lookup table
\* maps to it, in array order; an event whose sport key has no entry in the
\* table is in no bucket.
C28_NormalizerKeyMapping ==
    [][FlatStep =>
        \A sport \in CanonicalSports :
            LET MapsHere == {k \in DOMAIN sportKeyMapping : sportKeyMapping[k] = sport}
            IN Ids(latestOddsData'[sport]) = IdsWhere(upstreamInbox.data.array, MapsHere)
    ]_vars

\* C28 amended: after a flat array of events is handled, the store has the
\* five canonical buckets and each holds exactly the events whose sport key
\* the lookup table maps to it or whose sport key is that canonical key
\* itself, in array order; every other event is in no bucket.
C28_KeyMappingOrCanonical ==
    [][FlatStep =>
        /\ DOMAIN latestOddsData' = CanonicalSports
        /\ \A sport \in CanonicalSports :
            LET BelongsHere ==
                    {k \in DOMAIN sportKeyMapping : sportKeyMapping[k] = sport}
                        \cup ({sport} \ DOMAIN sportKeyMapping)
            IN Ids(latestOddsData'[sport]) = IdsWhere(upstreamInbox.data.array, BelongsHere)
    ]_vars

\* A flat array with a mapped event, an event under a canonical key and an
\* event under an unknown key was handled: two are stored, one is dropped
C28_Witness ==
    /\ latestOddsData # Null
    /\ DOMAIN latestOddsData = CanonicalSports
    /\ \E i \in 1..Len(latestOddsData["nba"]) :
        latestOddsData["nba"][i].sport_key = "basketball_nba"
    /\ \E i \in 1..Len(latestOddsData["nba"]) :
        latestOddsData["nba"][i].sport_key = "nba"

\* The places <<book, market, outcome>> of an Event's quotes that contribute
\* a value of field to one side of a market: the side named name
\* (named = TRUE) or the other side (named = FALSE)
Contributing(event, marketKey, name, named, field) ==
    LET ms(i) == marketsOf(event.bookmakers[i], event)
    IN {t \in UNION {UNION {{<<i, j, k>> : k \in 1..Len(ms(i)[j].outcomes)} :
                                j \in 1..Len(ms(i))} : i \in 1..Len(event.bookmakers)} :
            LET m == ms(t[1])[t[2]]
                o == m.outcomes[t[3]]
            IN m.key = marketKey /\ ((o.name = name) = named) /\ field \in DOMAIN o}

ContributedValue(event, t, field) ==
    marketsOf(event.bookmakers[t[1]], event)[t[2]].outcomes[t[3]][field]

RECURSIVE SumContributed(_, _, _)
SumContributed(event, places, field) ==
    IF places = {} THEN 0
    ELSE LET t == CHOOSE x \in places : TRUE
         IN ContributedValue(event, t, field) + SumContributed(event, places \ {t}, field)

\* r is null when nothing contributes, and otherwise a whole number of units
\* (halves for points) at most half a unit away from the mean
IsRoundedMean(r, event, marketKey, name, named, field) ==
    LET places == Contributing(event, marketKey, name, named, field)
        n == Cardinality(places)
        total == SumContributed(event, places, field)
        off == n * r[1] - total
    IN IF n = 0 THEN r = <<>>
       ELSE r # <<>> /\ 2 * off <= n /\ -2 * off <= n

\* averages is the rounded mean, side by side, of the quotes in bookmakers
AveragesAreOf(averages, event) ==
    IF Len(event.bookmakers) = 0 THEN averages = <<>>
    ELSE /\ averages # <<>>
         /\ LET a == averages[1]
                home == event.home_team
            IN /\ IsRoundedMean(a.spread.home, event, "spreads", home, TRUE, "point")
               /\ IsRoundedMean(a.spread.homeOdds, event, "spreads", home, TRUE, "price")
               /\ IsRoundedMean(a.spread.away, event, "spreads", home, FALSE, "point")
               /\ IsRoundedMean(a.spread.awayOdds, event, "spreads", home, FALSE, "price")
               /\ IsRoundedMean(a.total.over, event, "totals", "Over", TRUE, "point")
               /\ IsRoundedMean(a.total.overOdds, event, "totals", "Over", TRUE, "price")
               /\ IsRoundedMean(a.total.under, event, "totals", "Over", FALSE, "point")
               /\ IsRoundedMean(a.total.underOdds, event, "totals", "Over", FALSE, "price")
               /\ IsRoundedMean(a.moneyline.home, event, "h2h", home, TRUE, "price")
               /\ IsRoundedMean(a.moneyline.away, event, "h2h", home, FALSE, "price")

\* C29: every Event in the store and in every odds-update broadcast carries
\* averages that are the averages of all the quotes the Event carries, also
\* after a merge with cached quotes.
C29_AveragesCoverAllQuotes ==
    /\ latestOddsData # Null =>
        \A s \in DOMAIN latestOddsData : \A i \in 1..Len(latestOddsData[s]) :
            AveragesAreOf(latestOddsData[s][i].averages, latestOddsData[s][i])
    /\ \A e \in emitted : e.event = "odds-update" =>
        \A s \in DOMAIN e.payload : \A i \in 1..Len(e.payload[s]) :
            AveragesAreOf(e.payload[s][i].averages, e.payload[s][i])

\* C30: when an odds-update in the canonical shape is handled, the averages
\* attached to each of its Events are, side by side, the mean of the points
\* the message's quotes contribute rounded to the nearest 0.5 and the mean of
\* the prices rounded to the nearest integer; a side to which no quote
\* contributes is null.
C30_AverageRounding ==
    [][OddsStep /\ "sports" \in DOMAIN upstreamInbox.data =>
        \A s \in DOMAIN upstreamInbox.data.sports :
            \A i \in 1..Len(upstreamInbox.data.sports[s]) :
                AveragesAreOf(latestOddsData'[s][i].averages, upstreamInbox.data.sports[s][i])
    ]_vars

\* Three books quote the home spread at -3, -3.5 and -4 and none quotes a
\* moneyline: the average home point is -3.5, the average away point 3.5,
\* and the moneyline sides are null
C30_Witness ==
    /\ latestOddsData # Null
    /\ "ncaab" \in DOMAIN latestOddsData
    /\ \E i \in 1..Len(latestOddsData["ncaab"]) :
        LET event == latestOddsData["ncaab"][i]
            points == pushed(outcomesOf(marketsOfEvent(event), "spreads"),
                             event.home_team, TRUE, "point")
        IN /\ Len(points) = 3
           /\ {points[k] : k \in 1..3} = {-6, -7, -8}
           /\ event.averages # <<>>
           /\ event.averages[1].spread.home = <<-7>>
           /\ event.averages[1].spread.away = <<7>>
           /\ event.averages[1].moneyline.home = <<>>
           /\ event.averages[1].moneyline.away = <<>>

\* The handler of an upstream props update runs in this step
PropsStep == upstreamInbox.channel \in PropsChannels /\ upstreamInbox' = NoMsg

\* C31: an upstream props update stores its payload as it is in the slot of
\* its own channel and leaves every other props slot, the odds cache and the
\* scores cache unchanged.
C31_PerBookPropsSlots ==
    [][PropsStep =>
        /\ latestProps'[upstreamInbox.channel] = upstreamInbox.data
        /\ \A ch \in PropsChannels \ {upstreamInbox.channel} : latestProps'[ch] = latestProps[ch]
        /\ latestOddsData' = latestOddsData
        /\ latestScoresData' = latestScoresData
    ]_vars

\* A props update was just handled while another bookmaker's slot holds a
\* different payload and both the odds and the scores cache are filled
C31_Witness ==
    /\ \E ch \in handlerTrace \cap PropsChannels :
        /\ latestProps[ch] # Null
        /\ \E other \in PropsChannels \ {ch} :
            latestProps[other] # Null /\ latestProps[other] # latestProps[ch]
    /\ latestOddsData # Null
    /\ latestScoresData # Null

\* C32: after an odds update is handled, the cached list of every sport the
\* update mentions has one entry per incoming Event, in incoming order (same
\* id and teams at every position), and no cached Event of that sport whose
\* id is absent from the incoming list is left in it.
C32_EventListReplacement ==
    [][OddsStep /\ upstreamInbox.data # Null =>
        LET incoming == transformUpstreamData(upstreamInbox.data).sports
        IN \A s \in DOMAIN incoming :
            LET in == incoming[s]
                out == latestOddsData'[s]
                cached == CachedGames(s)
            IN /\ Len(out) = Len(in)
               /\ \A i \in 1..Len(in) :
                    /\ out[i].id = in[i].id
                    /\ out[i].home_team = in[i].home_team
                    /\ out[i].away_team = in[i].away_team
               /\ \A j \in 1..Len(cached) :
                    (\A i \in 1..Len(in) : in[i].id # cached[j].id) =>
                        \A i \in 1..Len(out) : out[i].id # cached[j].id
    ]_vars

\* An update that lists two Events without E2 was handled after E2 had been
\* cached by the first update: the list holds the two incoming Events only
C32_Witness ==
    /\ "odds-update" \in handlerTrace
    /\ latestOddsData # Null
    /\ Len(latestOddsData["nba"]) = 2
    /\ latestOddsData["nba"][1].id = NoId
    /\ latestOddsData["nba"][2].id = "E1"

\* C33: single watcher per consumer. In every reachable state, whatever the
\* interleaving of a consumer's watch-history and watch-history-multi
\* requests and the settling of their initial fetches, at most one polling
\* interval is active per consumer and every active interval is the one
\* registered for its consumer in the watcher table.
C33_SingleWatcherPerConsumer ==
    /\ \A c \in Consumers : Cardinality({t \in timers : t.owner = c}) <= 1
    /\ \A t \in timers :
        /\ t.owner \in DOMAIN historyWatchers
        /\ historyWatchers[t.owner].timer = t.id

\* The sweep runs in this step
SweepStep == nextSweep' # nextSweep

\* The times at which a request can be registered in the sweep scenarios
LiveTimes ==
    {k * (PROPS_HISTORY_REQUEST_TTL_MS \div 3) : k \in 0..(3 * MaxSweeps)}

PendingSince(t) == \E r \in propsHistoryRequests : r.createdAt = t

\* C34: bounded lifetime of pending entries. With a clock and a sweep that
\* keep running, an entry registered at any time is eventually out of the
\* table; every sweep removes exactly the entries whose age strictly exceeds
\* the TTL; and no entry is ever in the table for longer than two sweep
\* periods.
C34_BoundedPendingLifetime ==
    /\ \A t \in LiveTimes : PendingSince(t) ~> ~PendingSince(t)
    /\ [][SweepStep =>
            propsHistoryRequests' =
                {r \in propsHistoryRequests : now - r.createdAt <= PROPS_HISTORY_REQUEST_TTL_MS}]_vars
    /\ [](\A r \in propsHistoryRequests : now - r.createdAt <= 2 * PROPS_HISTORY_REQUEST_TTL_MS)

\* An unanswered entry registered at the instant of a sweep has survived that
\* sweep and the next one and is exactly two periods old: the sweep that is
\* now due removes it
C34_Witness ==
    /\ now = nextSweep
    /\ \E r \in propsHistoryRequests : now - r.createdAt = 2 * PROPS_HISTORY_REQUEST_TTL_MS

\* C35: at-most-once resolution. The handler of an upstream response that
\* carries a request id delivers it to at most one consumer, and only if an
\* entry is pending under that id; afterwards no entry is pending under the
\* id, so a further response with the same id finds none, is delivered to
\* nobody and changes nothing.
C35_AtMostOnceResolution ==
    [][(ResponseStep /\ upstreamInbox.data # Null /\ upstreamInbox.data.requestId # NoRequestId) =>
        /\ Cardinality(emitted') <= 1
        /\ \A r \in propsHistoryRequests' : r.requestId # upstreamInbox.data.requestId
        /\ MatchingPending = {} =>
            /\ emitted' = {}
            /\ propsHistoryRequests' = propsHistoryRequests
    ]_vars

\* A response for a request that was forwarded has just been ignored: with no
\* sweep and no disconnect, its entry can only have been removed by an
\* earlier response with the same id
C35_Witness ==
    /\ handlerTrace = {"response-unknown"}
    /\ upstreamForwarded # {}
    /\ emitted = {}
    /\ \E c \in Consumers : IsConnected(c) /\ sockets[c].propsAllowed

\* The handler sends the requester a rejection with this error in this step
RejectedWith(error) ==
    \E e \in emitted' :
        /\ e.room = consumerInbox.socket
        /\ e.event = "props-history-response"
        /\ ~e.payload.success
        /\ e.payload.error = error

\* C36: quota is charged before validation. The handler of an on-demand
\* request checks the capability first, then the rate limit, then the
\* capacity of the pending table, then the required fields: the first check
\* that fails decides the rejection.  A request rejected for capacity or for
\* missing fields has been counted in the consumer's window; a request
\* rejected for lack of capability or by the rate limit leaves the counters
\* as they were.
C36_QuotaChargedBeforeValidation ==
    [][RequestStep =>
        LET c == consumerInbox.socket
            allowed == sockets[c].propsAllowed
            rateInfo == currentRateInfo(c)
            limited == rateInfo.count >= PROPS_HISTORY_MAX_REQUESTS_PER_WINDOW
            full == Cardinality(propsHistoryRequests) >= MAX_PENDING_PROPS_HISTORY_REQUESTS
            charged == /\ c \in DOMAIN propsHistoryRateLimits'
                       /\ propsHistoryRateLimits'[c] =
                            [count |-> rateInfo.count + 1, windowStart |-> rateInfo.windowStart]
            uncharged == propsHistoryRateLimits' = propsHistoryRateLimits
        IN /\ ~allowed =>
                RejectedWith("Props history requires Rookie or MVP subscription") /\ uncharged
           /\ (allowed /\ limited) =>
                RejectedWith("Rate limit exceeded, try again later") /\ uncharged
           /\ (allowed /\ ~limited /\ full) =>
                RejectedWith("Server overloaded, try again later") /\ charged
           /\ (allowed /\ ~limited /\ ~full /\ ~consumerInbox.payload.complete) =>
                RejectedWith("Missing required parameters: gameId, player, category") /\ charged
    ]_vars

\* The consumer's first request filled the table and its second one was
\* refused for capacity: the window counts both
C36_Witness ==
    /\ handlerTrace = {"request-overloaded"}
    /\ Cardinality(propsHistoryRequests) >= MAX_PENDING_PROPS_HISTORY_REQUESTS
    /\ "s1" \in DOMAIN propsHistoryRateLimits
    /\ propsHistoryRateLimits["s1"].count = 2
    /\ Cardinality({r \in propsHistoryRequests : r.socketId = "s1"}) = 1

\* The sports a scores message lists
ScoreSports(scoresData) ==
    IF scoresData = Null THEN {}
    ELSE {scoresData.sports[i].key : i \in 1..Len(scoresData.sports)}

ScoreFields == {"home_score", "away_score"}

\* No Event of the odds store has a score field
StoredWithoutScores ==
    latestOddsData # Null =>
        \A s \in DOMAIN latestOddsData : \A i \in 1..Len(latestOddsData[s]) :
            DOMAIN latestOddsData[s][i] \cap ScoreFields = {}

\* C37: domain independence of caches. Handling an upstream scores update
\* makes the new message the whole scores cache, so that a sport the message
\* does not list is no longer cached, and leaves the odds store as it was;
\* handling an upstream odds update leaves the scores cache as it was; no
\* Event of the odds store ever has a score field.
C37_CacheDomainIndependence ==
    /\ [][ScoresStep =>
            /\ latestScoresData' = upstreamInbox.data
            /\ ScoreSports(latestScoresData') = ScoreSports(upstreamInbox.data)
            /\ latestOddsData' = latestOddsData]_vars
    /\ [][OddsStep => latestScoresData' = latestScoresData]_vars
    /\ []StoredWithoutScores

\* An odds update was broadcast with a score on an Event while the scores
\* cache, replaced since by a message that lists ncaab only, was left alone
\* and the stored Event has no score
C37_Witness ==
    /\ handlerTrace = {"odds-update"}
    /\ ScoreSports(latestScoresData) = {"ncaab"}
    /\ StoredWithoutScores
    /\ \E e \in emitted :
        /\ e.event = "odds-update"
        /\ \E s \in DOMAIN e.payload : \E i \in 1..Len(e.payload[s]) :
            ScoreFields \subseteq DOMAIN e.payload[s][i]

\* The sport each cached score record is listed under, in index order
RECURSIVE SportsOfRecords(_)
SportsOfRecords(buckets) ==
    IF buckets = <<>> THEN <<>>
    ELSE [i \in 1..Len(Head(buckets).events) |-> Head(buckets).key]
         \o SportsOfRecords(Tail(buckets))

CachedScoreSports ==
    IF latestScoresData = Null THEN <<>> ELSE SportsOfRecords(latestScoresData.sports)

\* Index of the cached score record the resolver takes for an odds Event: the
\* last record with its id, else the last record with its team-pair key, else
\* the first record coinciding with it on both names in either orientation
\* (wrapped; empty when there is none)
Resolved(ev) ==
    IF IdHits(ev) # {} THEN <<MaxOf(IdHits(ev))>>
    ELSE IF KeyHits(ev) # {} THEN <<MaxOf(KeyHits(ev))>>
    ELSE IF DirectHits(ev) \cup SwappedHits(ev) # {}
    THEN <<MinOf(DirectHits(ev) \cup SwappedHits(ev))>>
    ELSE <<>>

HasScore(score) == ~(score.home_score = NoScore /\ score.away_score = NoScore)

\* The broadcast Event carries the scores of cached record k, exchanged when
\* the record was found by prefix and coincides crosswise only
ShowsRecord(ev, out, k) ==
    IF k \in IdHits(ev) \cup KeyHits(ev) \cup DirectHits(ev)
    THEN Shows(out, CachedScores[k].home_score, CachedScores[k].away_score)
    ELSE Shows(out, CachedScores[k].away_score, CachedScores[k].home_score)

\* A merged view the handler that ran last has broadcast, in the state that
\* handler left (the next upstream message has not arrived)
JustBroadcast(e) == e.event = "odds-update" /\ upstreamInbox = NoMsg

\* C38: score matching ignores the sport bucket. In every merged view just
\* broadcast, an odds Event whose resolved score record (by id, by team-pair
\* key or by prefix on both sides) is listed under another sport than the
\* Event and has a score carries the scores of that record.
C38_MatchingIgnoresSport ==
    \A e \in emitted :
        JustBroadcast(e) =>
            \A s \in DOMAIN e.payload : \A i \in 1..Len(e.payload[s]) :
                LET ev == latestOddsData[s][i]
                    out == e.payload[s][i]
                IN \A k \in Range(Resolved(ev)) :
                    (CachedScoreSports[k] # s /\ HasScore(CachedScores[k])) =>
                        ShowsRecord(ev, out, k)

\* The step that resolved the Event to a record of another sport
CrossSportStep(step) ==
    \E e \in emitted :
        /\ JustBroadcast(e)
        /\ \E s \in DOMAIN e.payload : \E i \in 1..Len(e.payload[s]) :
            LET ev == latestOddsData[s][i]
            IN \E k \in Range(Resolved(ev)) :
                /\ CachedScoreSports[k] # s
                /\ HasScore(CachedScores[k])
                /\ ShowsRecord(ev, e.payload[s][i], k)
                /\ CASE step = "id" -> k \in IdHits(ev)
                     [] step = "teams" -> k \in KeyHits(ev) \ IdHits(ev)
                     [] OTHER -> k \notin IdHits(ev) \cup KeyHits(ev)

\* An nba Event was broadcast with the scores of an ncaab record that has its
\* team-pair key, while no record is listed under nba
C38_Witness ==
    /\ CrossSportStep("teams")
    /\ ScoreSports(latestScoresData) = {"ncaab"}

\* Indices of the cached score records that match the odds Event at some step
\* and have a score
ScoredHits(ev) ==
    {k \in IdHits(ev) \cup KeyHits(ev) \cup DirectHits(ev) \cup SwappedHits(ev) :
        HasScore(CachedScores[k])}

\* C39: empty score stops resolution. In every merged view just broadcast, an
\* odds Event whose resolved score record (the one the first matching step
\* yields) has neither a home nor an away score is listed exactly as stored,
\* whatever other records match it at that or a later step.
C39_EmptyScoreStopsResolution ==
    \A e \in emitted :
        JustBroadcast(e) =>
            \A s \in DOMAIN e.payload : \A i \in 1..Len(e.payload[s]) :
                LET ev == latestOddsData[s][i]
                IN \A k \in Range(Resolved(ev)) :
                    ~HasScore(CachedScores[k]) => e.payload[s][i] = ev

\* The step that resolved an Event to a record without scores although
\* another record with scores matches the Event
StoppedAt(step) ==
    \E e \in emitted :
        /\ JustBroadcast(e)
        /\ \E s \in DOMAIN e.payload : \E i \in 1..Len(e.payload[s]) :
            LET ev == latestOddsData[s][i]
            IN \E k \in Range(Resolved(ev)) :
                /\ ~HasScore(CachedScores[k])
                /\ ScoredHits(ev) # {}
                /\ e.payload[s][i] = ev
                /\ CASE step = "id" -> k \in IdHits(ev)
                     [] step = "teams" -> k \in KeyHits(ev) \ IdHits(ev)
                     [] OTHER -> k \notin IdHits(ev) \cup KeyHits(ev)

\* An Event was broadcast as stored: the record with its id has no scores,
\* and a record with its team-pair key has
C39_Witness ==
    /\ StoppedAt("id")
    /\ \E s \in DOMAIN latestOddsData : \E i \in 1..Len(latestOddsData[s]) :
        ScoredHits(latestOddsData[s][i]) \cap KeyHits(latestOddsData[s][i]) # {}

\* Indices of the cached score records coinciding with the Event on both
\* names, in either orientation
FuzzyHits(ev) == DirectHits(ev) \cup SwappedHits(ev)

\* C40: fuzzy candidate order. In every merged view just broadcast, an odds
\* Event that no cached score record matches by id or by team-pair key is
\* resolved to the first cached record, in the order of the scores message
\* across its sports, that coincides with it on both names in either
\* orientation: when that record has a score the Event carries its scores
\* (exchanged when it coincides crosswise only), whatever later records
\* match, and otherwise the Event is listed as stored.  The broadcast Event is
\* thereby determined by the stored Event and the cached score list.
C40_FuzzyCandidateOrder ==
    \A e \in emitted :
        JustBroadcast(e) =>
            \A s \in DOMAIN e.payload : \A i \in 1..Len(e.payload[s]) :
                LET ev == latestOddsData[s][i]
                    out == e.payload[s][i]
                IN (IdHits(ev) = {} /\ KeyHits(ev) = {} /\ FuzzyHits(ev) # {}) =>
                    LET k == MinOf(FuzzyHits(ev))
                    IN IF HasScore(CachedScores[k])
                       THEN ShowsRecord(ev, out, k)
                       ELSE out = ev

\* An nba Event was broadcast with the exchanged scores of an ncaab record
\* that coincides with it crosswise, although a later record, listed under
\* nba, coincides with it in the same orientation and has other scores
C40_Witness ==
    \E e \in emitted :
        /\ JustBroadcast(e)
        /\ \E s \in DOMAIN e.payload : \E i \in 1..Len(e.payload[s]) :
            LET ev == latestOddsData[s][i]
                out == e.payload[s][i]
            IN /\ IdHits(ev) = {}
               /\ KeyHits(ev) = {}
               /\ \E k \in SwappedHits(ev) \ DirectHits(ev) : \E j \in DirectHits(ev) :
                    /\ k = MinOf(FuzzyHits(ev))
                    /\ k < j
                    /\ CachedScoreSports[k] = "ncaab"
                    /\ CachedScoreSports[j] = s
                    /\ HasScore(CachedScores[j])
                    /\ Shows(out, CachedScores[k].away_score, CachedScores[k].home_score)
                    /\ ~Shows(out, CachedScores[j].home_score, CachedScores[j].away_score)
====
